---- MODULE Spec2Model ----
(***************************************************************************)
(* Model of tools/apply-all-patches.ts (configuration-driven version):     *)
(* the registry loaded from patches.config.yaml, the dependency resolver,  *)
(* the content verifier, the patch applier and the apply driver.           *)
(*                                                                         *)
(* The target tree is abstracted as files holding sets of lines; a patch   *)
(* artifact is one hunk that needs a context line in its target file and   *)
(* replaces it by the line it writes.  `git apply --check` and `git apply` *)
(* are modelled by what they do on that abstraction.                       *)
(***************************************************************************)
EXTENDS FiniteSets, Integers, Sequences, TLC

\* ------------------------------------------------------------------ bounds
\* Largest number of dependency edges in a generated registry.
MaxEdges == 4
\* Number of writes another process makes to the tree during one invocation.
MaxExternalEdits == 1
\* Most (file, patterns) entries in the checkApplied of one patch.
MaxEntries == 2
\* Most runs of setup.sh on one machine.
MaxRuns == 3

\* ------------------------------------------------------------ value domains
\* Ids declared in the registry, in document order.
RegistryOrder == <<"A", "B", "C">>
Ids == {RegistryOrder[i] : i \in 1..Len(RegistryOrder)}
\* An id no patch of the registry declares.
Undeclared == "X"
DepIds == Ids \cup {Undeclared}

\* The empty string is the absent option (falsy in the source).
NoCategory == ""
\* The absent --patch option.
NoPatch == ""

\* Target file of each patch's hunk and verification entry.
PathOf == [A |-> "a.ts", B |-> "b.ts", C |-> "c.ts"]
Paths == {PathOf[i] : i \in Ids}
\* Artifact file name of each patch, relative to PATCHES_DIR.
FileOf == [A |-> "A.patch", B |-> "B.patch", C |-> "C.patch"]
PatchFiles == {FileOf[i] : i \in Ids}

\* Lines of a target file: the upstream line a hunk replaces, the line the
\* verification patterns look for, and the line a stale artifact writes.
OldLine == "old"
NewLine == "new"
BadLine == "bad"
\* A second line a checkApplied entry can look for.
Marker == "marker"

\* --------------------------------------------------------- sequence helpers
Range(s) == {s[i] : i \in 1..Len(s)}

RECURSIVE SeqsNoRep(_, _)
\* All sequences without repetition over S of length at most n.
SeqsNoRep(S, n) ==
    IF n = 0 \/ S = {} THEN {<<>>}
    ELSE {<<>>} \cup UNION {{<<x>> \o t : t \in SeqsNoRep(S \ {x}, n - 1)} : x \in S}

\* ----------------------------------------------------------------- registry
\* interface PatchConfig
PatchConfig(id, category, enabled, dependencies) ==
    [id |-> id,
     file |-> FileOf[id],
     category |-> category,
     enabled |-> enabled,
     dependencies |-> dependencies,
     checkApplied |-> [type |-> "grep",
                       files |-> <<[path |-> PathOf[id], patterns |-> <<NewLine>>]>>]]

\* patches.find((p) => p.id === patchId): index of the first match, 0 when none.
find(patches, patchId) ==
    IF \E i \in 1..Len(patches) : patches[i].id = patchId
    THEN CHOOSE i \in 1..Len(patches) :
            /\ patches[i].id = patchId
            /\ \A j \in 1..(i - 1) : patches[j].id # patchId
    ELSE 0

\* Config.categories: the display name and description of each category.
Categories ==
    [conversation |-> [name |-> "Conversation & Rules Preservation",
                       description |-> "Keeps rules across the conversation"],
     performance |-> [name |-> "Performance & Reliability",
                      description |-> "Retries and timeouts"]]

\* The Config object before loadConfig has returned.
NoConfig == [patches |-> <<>>, categories |-> <<>>]

\* patches.config.yaml is text: the data it encodes and, when written by
\* hand, comments and layout.  YAML.parse keeps the data only, the patches
\* and the keys of each mapping in document order.
YAML_parse(doc) ==
    [patches |-> doc.patches, categories |-> doc.categories]

\* YAML.stringify writes the data in the library's own layout, the patches
\* and keys in the order the object holds them; there are no comments.
YAML_stringify(config) ==
    [patches |-> config.patches, categories |-> config.categories, comments |-> FALSE]

\* ------------------------------------------------------- content verifier
\* grep -q pattern file: exit 0 iff the file exists, can be read and holds
\* the pattern; exit 1 without a match and 2 when the file cannot be opened.
grep(tree, dirExists, pattern, path) ==
    /\ dirExists
    /\ tree[path].exists
    /\ tree[path].readable
    /\ pattern \in tree[path].lines

\* checkPatchApplied: false for a check type other than grep; otherwise true
\* iff no grep of any pattern of any entry fails.
checkPatchApplied(patch, tree, dirExists) ==
    IF patch.checkApplied.type # "grep" THEN FALSE
    ELSE \A i \in 1..Len(patch.checkApplied.files) :
            LET file == patch.checkApplied.files[i] IN
            \A k \in 1..Len(file.patterns) : grep(tree, dirExists, file.patterns[k], file.path)

\* --------------------------------------------------------------- git apply
\* git apply --check: the hunk applies iff its target exists and holds the
\* context line it replaces.  Nothing is written.
gitApplyCheck(tree, art) ==
    /\ tree[art.path].exists
    /\ tree[art.path].readable
    /\ art.ctx \in tree[art.path].lines

\* git apply exits 0 iff the hunk applies and the target can be written;
\* otherwise it leaves the tree as it was (all or nothing).
gitApplyExit0(tree, art) ==
    /\ gitApplyCheck(tree, art)
    /\ tree[art.path].writable

\* git apply: the context line is replaced by the line the artifact writes.
gitApply(tree, art) ==
    IF gitApplyExit0(tree, art)
    THEN [tree EXCEPT ![art.path].lines = (@ \ {art.ctx}) \cup {art.add}]
    ELSE tree

\* ------------------------------------------------------ dependency resolver
\* A call of resolveDependencies either returns (exit = "") with the order it
\* emits and the shared `resolved` set as it left it, or ends the process
\* (process.exit(1)) with the message kind and the id the message names.
\* `expanded` lists the ids the call and the calls it made went into
\* (visiting.add), in the order they did.
Returned(order, resolved) ==
    [exit |-> "", errId |-> "", order |-> order, resolved |-> resolved, expanded |-> <<>>]

Exited(kind, patchId) ==
    [exit |-> kind, errId |-> patchId, order |-> <<>>, resolved |-> {}, expanded |-> <<>>]

CircularDependency == "Circular dependency detected"
PatchNotFound == "Patch not found"

RECURSIVE resolveDependencies(_, _, _, _)
RECURSIVE resolveEach(_, _, _, _, _, _)

\* Variant: the patch is pushed before its dependencies.
resolveDependencies_PushesFirst(patches, patchId, resolved, visiting) ==
    IF patchId \in resolved THEN Returned(<<>>, resolved)
    ELSE IF patchId \in visiting THEN Exited(CircularDependency, patchId)
    ELSE IF find(patches, patchId) = 0 THEN Exited(PatchNotFound, patchId)
    ELSE LET patch == patches[find(patches, patchId)]
             r == resolveEach(patches, patch.dependencies, 1, resolved,
                              visiting \cup {patchId}, <<patchId>>)
         IN  IF r.exit # "" THEN r
             ELSE Returned(r.order, r.resolved \cup {patchId})

\* Variant: an id met again while it is being visited is skipped.
resolveDependencies_SkipsVisiting(patches, patchId, resolved, visiting) ==
    IF patchId \in resolved \/ patchId \in visiting THEN Returned(<<>>, resolved)
    ELSE IF find(patches, patchId) = 0 THEN Exited(PatchNotFound, patchId)
    ELSE LET patch == patches[find(patches, patchId)]
             r == resolveEach(patches, patch.dependencies, 1, resolved,
                              visiting \cup {patchId}, <<>>)
         IN  IF r.exit # "" THEN r
             ELSE Returned(Append(r.order, patchId), r.resolved \cup {patchId})

\* Variant: an id the registry does not declare is skipped.
resolveDependencies_SkipsUnknown(patches, patchId, resolved, visiting) ==
    IF patchId \in resolved \/ find(patches, patchId) = 0 THEN Returned(<<>>, resolved)
    ELSE IF patchId \in visiting THEN Exited(CircularDependency, patchId)
    ELSE LET patch == patches[find(patches, patchId)]
             r == resolveEach(patches, patch.dependencies, 1, resolved,
                              visiting \cup {patchId}, <<>>)
         IN  IF r.exit # "" THEN r
             ELSE Returned(Append(r.order, patchId), r.resolved \cup {patchId})

\* Variant: an id already resolved is gone into again.
resolveDependencies_NoResolvedCheck(patches, patchId, resolved, visiting) ==
    IF patchId \in visiting THEN Exited(CircularDependency, patchId)
    ELSE IF find(patches, patchId) = 0 THEN Exited(PatchNotFound, patchId)
    ELSE LET patch == patches[find(patches, patchId)]
             r == resolveEach(patches, patch.dependencies, 1, resolved,
                              visiting \cup {patchId}, <<>>)
         IN  IF r.exit # "" THEN [r EXCEPT !.expanded = <<patchId>> \o @]
             ELSE [Returned(Append(r.order, patchId), r.resolved \cup {patchId})
                      EXCEPT !.expanded = <<patchId>> \o r.expanded]

resolveDependencies(patches, patchId, resolved, visiting) ==
    IF patchId \in resolved THEN Returned(<<>>, resolved)
    ELSE IF patchId \in visiting THEN Exited(CircularDependency, patchId)
    ELSE IF find(patches, patchId) = 0 THEN Exited(PatchNotFound, patchId)
    ELSE LET patch == patches[find(patches, patchId)]
             r == resolveEach(patches, patch.dependencies, 1, resolved,
                              visiting \cup {patchId}, <<>>)
         IN  IF r.exit # "" THEN [r EXCEPT !.expanded = <<patchId>> \o @]
             ELSE [Returned(Append(r.order, patchId), r.resolved \cup {patchId})
                      EXCEPT !.expanded = <<patchId>> \o r.expanded]

RECURSIVE resolveEach_LastFirst(_, _, _, _, _, _)
\* Variant: the dependencies are visited from the last declared to the first.
resolveEach_LastFirst(patches, deps, k, resolved, visiting, order) ==
    IF k > Len(deps) THEN Returned(order, resolved)
    ELSE LET r == resolveDependencies(patches, deps[Len(deps) + 1 - k], resolved, visiting)
         IN  IF r.exit # "" THEN r
             ELSE resolveEach_LastFirst(patches, deps, k + 1, r.resolved, visiting,
                                        order \o r.order)

\* The loop over patch.dependencies, from position k on, `order` being what
\* the earlier dependencies pushed.
resolveEach(patches, deps, k, resolved, visiting, order) ==
    IF k > Len(deps) THEN Returned(order, resolved)
    ELSE LET r == resolveDependencies(patches, deps[k], resolved, visiting)
         IN  IF r.exit # "" THEN r
             ELSE [resolveEach(patches, deps, k + 1, r.resolved, visiting, order \o r.order)
                      EXCEPT !.expanded = r.expanded \o @]

RECURSIVE pushMissing(_, _, _)
\* for (const depId of deps) if (!applyOrder.includes(depId)) applyOrder.push(depId)
pushMissing(applyOrder, deps, k) ==
    IF k > Len(deps) THEN applyOrder
    ELSE pushMissing(IF deps[k] \in Range(applyOrder) THEN applyOrder
                     ELSE Append(applyOrder, deps[k]), deps, k + 1)

\* Variant: the selection is the union of the --patch id, the patches of the
\* --category, every patch under --all, and the enabled ones when no option
\* is given.
patchesToApply_Union(config, options) ==
    SelectSeq(config.patches, LAMBDA p :
        \/ p.id = options.patch
        \/ options.category # NoCategory /\ p.category = options.category
        \/ options.all
        \/ /\ options.patch = NoPatch /\ options.category = NoCategory /\ ~options.all
           /\ p.enabled)

\* Variant: --category is never looked at.
patchesToApply_IgnoresCategory(config, options) ==
    SelectSeq(config.patches, LAMBDA p : ~(~options.all /\ ~p.enabled))

\* Variant: the enabled flag is never looked at.
patchesToApply_IgnoresEnabled(config, options) ==
    SelectSeq(config.patches, LAMBDA p :
        ~(options.category # NoCategory /\ p.category # options.category))

\* Variant: --all is never looked at.
patchesToApply_IgnoresAll(config, options) ==
    SelectSeq(config.patches, LAMBDA p :
        /\ ~(options.category # NoCategory /\ p.category # options.category)
        /\ p.enabled)

\* The filter of applyPatches: category first, then the enabled flag unless
\* --all is given.
patchesToApply(config, options) ==
    SelectSeq(config.patches, LAMBDA p :
        /\ ~(options.category # NoCategory /\ p.category # options.category)
        /\ ~(~options.all /\ ~p.enabled))

RECURSIVE resolveAll(_, _, _, _, _)
\* Variant: a root whose resolution failed is left out and the loop goes on.
resolveAll_GoesOn(patches, roots, k, resolved, applyOrder) ==
    IF k > Len(roots)
    THEN [exit |-> "", errId |-> "", applyOrder |-> applyOrder, expanded |-> <<>>]
    ELSE LET r == resolveDependencies(patches, roots[k].id, resolved, {})
         IN  IF r.exit # ""
             THEN resolveAll(patches, roots, k + 1, resolved, applyOrder)
             ELSE resolveAll(patches, roots, k + 1, r.resolved,
                             pushMissing(applyOrder, r.order, 1))

RECURSIVE resolveAll_EveryPatch(_, _, _, _, _)
\* Variant: every patch of the registry is resolved, only the selected ones
\* are pushed.
resolveAll_EveryPatch(patches, roots, k, resolved, applyOrder) ==
    IF k > Len(patches)
    THEN [exit |-> "", errId |-> "", applyOrder |-> applyOrder, expanded |-> <<>>]
    ELSE LET r == resolveDependencies(patches, patches[k].id, resolved, {})
         IN  IF r.exit # ""
             THEN [exit |-> r.exit, errId |-> r.errId, applyOrder |-> applyOrder,
                   expanded |-> r.expanded]
             ELSE [resolveAll_EveryPatch(patches, roots, k + 1, r.resolved,
                        IF \E j \in 1..Len(roots) : roots[j].id = patches[k].id
                        THEN pushMissing(applyOrder, r.order, 1) ELSE applyOrder)
                      EXCEPT !.expanded = r.expanded \o @]

\* The loop of applyPatches over patchesToApply, one `resolved` set shared by
\* all the calls, a fresh `visiting` set for each.
resolveAll(patches, roots, k, resolved, applyOrder) ==
    IF k > Len(roots)
    THEN [exit |-> "", errId |-> "", applyOrder |-> applyOrder, expanded |-> <<>>]
    ELSE LET r == resolveDependencies(patches, roots[k].id, resolved, {})
         IN  IF r.exit # ""
             THEN [exit |-> r.exit, errId |-> r.errId, applyOrder |-> applyOrder,
                   expanded |-> r.expanded]
             ELSE [resolveAll(patches, roots, k + 1, r.resolved,
                              pushMissing(applyOrder, r.order, 1))
                      EXCEPT !.expanded = r.expanded \o @]

\* ------------------------------------------------------ enable and disable
\* What enablePatch and disablePatch end with: the exit status, the message
\* and the ids it lists, the Config object as the call left it, and whether
\* saveConfig was called.
Outcome(code, msg, ids, config, saved) ==
    [code |-> code, msg |-> msg, ids |-> ids, config |-> config, saved |-> saved]

AlreadyEnabled == "Patch already enabled"
AlreadyDisabled == "Patch already disabled"
EnabledPatch == "Enabled patch"
DisabledPatch == "Disabled patch"
CannotDisable == "Cannot disable patch"
MissingPatchOption == "Missing --patch option"
PatchesFailed == "patch(es) failed to apply"
UnknownCommand == "Unknown command"
ScriptFailed == "Script failed"

\* --------------------------------------------------------- status and list
\* The patches status and list show: those of the --category, all without.
shown(config, options) ==
    SelectSeq(config.patches, LAMBDA p :
        ~(options.category # NoCategory /\ p.category # options.category))

RECURSIVE categoryKeys(_, _, _)
\* The keys of the Map `categories` in insertion order: the category of each
\* patch shown, at its first occurrence.
categoryKeys(patches, k, keys) ==
    IF k > Len(patches) THEN keys
    ELSE categoryKeys(patches, k + 1,
                      IF patches[k].category \in Range(keys) THEN keys
                      ELSE Append(keys, patches[k].category))

RECURSIVE grouped(_, _, _)
\* The patches in the order the two loops print them: category by category.
grouped(patches, keys, k) ==
    IF k > Len(keys) THEN <<>>
    ELSE SelectSeq(patches, LAMBDA p : p.category = keys[k]) \o grouped(patches, keys, k + 1)

\* config.categories[categoryId].name throws when the registry has no such
\* category; main().catch then ends the process.
throws(config, keys) ==
    \E k \in 1..Len(keys) : keys[k] \notin DOMAIN config.categories

\* showStatus: for each patch its enabled flag and what checkPatchApplied
\* says of the tree.
showStatus(config, options, tree, dirExists) ==
    LET keys == categoryKeys(shown(config, options), 1, <<>>)
        patches == grouped(shown(config, options), keys, 1)
    IN  [threw |-> throws(config, keys),
         lines |-> [k \in 1..Len(patches) |->
                      [id |-> patches[k].id, enabled |-> patches[k].enabled,
                       applied |-> checkPatchApplied(patches[k], tree, dirExists)]]]

\* listPatches: for each patch its enabled flag.
listPatches(config, options) ==
    LET keys == categoryKeys(shown(config, options), 1, <<>>)
        patches == grouped(shown(config, options), keys, 1)
    IN  [threw |-> throws(config, keys),
         lines |-> [k \in 1..Len(patches) |->
                      [id |-> patches[k].id, enabled |-> patches[k].enabled]]]

\* ------------------------------------------------------------------- main
\* Variant: the case of status has no break and runs into the apply command.
dispatch_StatusApplies(command, patch) ==
    CASE command \in {"apply", "status"} -> "applyPatches"
      [] command = "list" -> "listPatches"
      [] command \in {"enable", "disable"} /\ patch = NoPatch -> "missing-patch"
      [] command = "enable" /\ patch # NoPatch -> "enablePatch"
      [] command = "disable" /\ patch # NoPatch -> "disablePatch"
      [] command = "help" -> "help"
      [] OTHER -> "unknown"

\* The switch of main: the function the command calls, or how main ends.
dispatch(command, patch) ==
    CASE command = "apply" -> "applyPatches"
      [] command = "status" -> "showStatus"
      [] command = "list" -> "listPatches"
      [] command \in {"enable", "disable"} /\ patch = NoPatch -> "missing-patch"
      [] command = "enable" /\ patch # NoPatch -> "enablePatch"
      [] command = "disable" /\ patch # NoPatch -> "disablePatch"
      [] command = "help" -> "help"
      [] OTHER -> "unknown"

\* Variant: an id the registry does not declare is saved as if it had been
\* enabled.
enablePatch_SavesUnknown(config, patchId) ==
    LET i == find(config.patches, patchId) IN
    IF i = 0 THEN Outcome(0, EnabledPatch, {}, config, TRUE)
    ELSE IF config.patches[i].enabled THEN Outcome(0, AlreadyEnabled, {}, config, FALSE)
    ELSE Outcome(0, EnabledPatch, {}, [config EXCEPT !.patches[i].enabled = TRUE], TRUE)

\* Variant: the Config object is saved also when the patch was enabled.
enablePatch_SavesAlways(config, patchId) ==
    LET i == find(config.patches, patchId) IN
    IF i = 0 THEN Outcome(1, PatchNotFound, {}, config, FALSE)
    ELSE IF config.patches[i].enabled THEN Outcome(0, AlreadyEnabled, {}, config, TRUE)
    ELSE Outcome(0, EnabledPatch, {}, [config EXCEPT !.patches[i].enabled = TRUE], TRUE)

\* Variant: the dependencies of the patch are enabled with it.
enablePatch_EnablesDependencies(config, patchId) ==
    LET i == find(config.patches, patchId) IN
    IF i = 0 THEN Outcome(1, PatchNotFound, {}, config, FALSE)
    ELSE IF config.patches[i].enabled THEN Outcome(0, AlreadyEnabled, {}, config, FALSE)
    ELSE Outcome(0, EnabledPatch, {},
                 [config EXCEPT !.patches =
                     [k \in 1..Len(config.patches) |->
                         IF k = i \/ config.patches[k].id \in Range(config.patches[i].dependencies)
                         THEN [config.patches[k] EXCEPT !.enabled = TRUE]
                         ELSE config.patches[k]]],
                 TRUE)

enablePatch(config, patchId) ==
    LET i == find(config.patches, patchId) IN
    IF i = 0 THEN Outcome(1, PatchNotFound, {}, config, FALSE)
    ELSE IF config.patches[i].enabled THEN Outcome(0, AlreadyEnabled, {}, config, FALSE)
    ELSE Outcome(0, EnabledPatch, {}, [config EXCEPT !.patches[i].enabled = TRUE], TRUE)

\* config.patches.filter((p) => p.enabled && p.dependencies.includes(patchId))
dependents(config, patchId) ==
    SelectSeq(config.patches, LAMBDA p : p.enabled /\ patchId \in Range(p.dependencies))

\* Variant: the patches that depend on the id are not looked at.
disablePatch_NoDependentsCheck(config, patchId) ==
    LET i == find(config.patches, patchId) IN
    IF i = 0 THEN Outcome(1, PatchNotFound, {}, config, FALSE)
    ELSE IF ~config.patches[i].enabled THEN Outcome(0, AlreadyDisabled, {}, config, FALSE)
    ELSE Outcome(0, DisabledPatch, {}, [config EXCEPT !.patches[i].enabled = FALSE], TRUE)

\* Variant: the dependents are looked at before the enabled flag of the patch.
disablePatch_DependentsFirst(config, patchId) ==
    LET i == find(config.patches, patchId) IN
    IF i = 0 THEN Outcome(1, PatchNotFound, {}, config, FALSE)
    ELSE IF Len(dependents(config, patchId)) > 0
         THEN Outcome(1, CannotDisable,
                      {dependents(config, patchId)[k].id :
                          k \in 1..Len(dependents(config, patchId))},
                      config, FALSE)
    ELSE IF ~config.patches[i].enabled THEN Outcome(0, AlreadyDisabled, {}, config, FALSE)
    ELSE Outcome(0, DisabledPatch, {}, [config EXCEPT !.patches[i].enabled = FALSE], TRUE)

disablePatch(config, patchId) ==
    LET i == find(config.patches, patchId) IN
    IF i = 0 THEN Outcome(1, PatchNotFound, {}, config, FALSE)
    ELSE IF ~config.patches[i].enabled THEN Outcome(0, AlreadyDisabled, {}, config, FALSE)
    ELSE IF Len(dependents(config, patchId)) > 0
         THEN Outcome(1, CannotDisable,
                      {dependents(config, patchId)[k].id :
                          k \in 1..Len(dependents(config, patchId))},
                      config, FALSE)
    ELSE Outcome(0, DisabledPatch, {}, [config EXCEPT !.patches[i].enabled = FALSE], TRUE)

\* --------------------------------------------------------------- applyPatch
\* The part of applyPatch before its try block: the initial verification,
\* then the existence checks of the artifact and of OPENCODE_DIR.
\* Variant: the initial verification is left out.
applyPatchStart_NoVerification(patch, tree, artifacts, env) ==
    IF ~artifacts[patch.file].exists THEN "no-artifact"
    ELSE IF ~env.opencodeDir THEN "no-directory"
    ELSE "try"

\* Variant: the artifact and OPENCODE_DIR are looked for first.
applyPatchStart_ArtifactFirst(patch, tree, artifacts, env) ==
    IF ~artifacts[patch.file].exists THEN "no-artifact"
    ELSE IF ~env.opencodeDir THEN "no-directory"
    ELSE IF checkPatchApplied(patch, tree, env.opencodeDir) THEN "satisfied"
    ELSE "try"

applyPatchStart(patch, tree, artifacts, env) ==
    IF checkPatchApplied(patch, tree, env.opencodeDir) THEN "satisfied"
    ELSE IF ~artifacts[patch.file].exists THEN "no-artifact"
    ELSE IF ~env.opencodeDir THEN "no-directory"
    ELSE "try"

\* Variant: the exit status of the dry run is ignored.
afterDryRun_Ignored(exit0) ==
    "apply"

\* Where the try block goes after `git apply --check`.
afterDryRun(exit0) ==
    IF exit0 THEN "apply" ELSE "catch"

\* The result of the try block after `git apply` exited 0 (return true), or
\* "catch" when it threw.
afterApply(exit0) ==
    IF exit0 THEN "return-true" ELSE "catch"

\* The catch block: the verification is run once more and decides.
applyPatchCatch(patch, tree, env) ==
    IF checkPatchApplied(patch, tree, env.opencodeDir) THEN "return-true"
    ELSE "return-false"

\* Variant: only the result of the last patch counts.
failed_LastOnly(results) ==
    IF Len(results) > 0 /\ ~results[Len(results)] THEN 1 ELSE 0

\* results.filter((r) => !r).length
failed(results) ==
    Cardinality({i \in 1..Len(results) : ~results[i]})

\* -------------------------------------------------------------------- state
VARIABLES
    configDoc,   \* patches.config.yaml on disk: the list of patches
    env,         \* which of .git, PATCHES_DIR, CONFIG_FILE, OPENCODE_DIR exist
    artifacts,   \* the patch artifacts under PATCHES_DIR, by file name
    args,        \* the command line: command, --category, --all
    tree,        \* the target tree: each path's existence, lines, writability
    config,      \* the Config object main holds after loadConfig
    pc,          \* where the invocation is
    exitCode,    \* the exit status once pc = "exit"
    err,         \* the fatal message of the invocation and the id it names
    applyOrder,  \* applyPatches' local applyOrder
    idx,         \* position of the apply loop in applyOrder
    results,     \* applyPatches' local results
    steps,       \* what the applyPatch call in flight has run so far
    before,      \* the tree when the applyPatch call in flight started
    calls,       \* the applyPatch calls this invocation completed, in order
    prev,        \* the last applyPatch call the invocation before completed
    edits,       \* writes by other processes during this invocation
    tree0,       \* the tree as this invocation found it
    doc0,        \* patches.config.yaml as this invocation found it
    writes,      \* the writes of patches.config.yaml by this invocation
    reads,       \* the reads of patches.config.yaml by this invocation
    out,         \* what status or list printed: one line for each patch
    expanded,    \* the ids the resolver went into, in the order it did
    legacy,      \* an invocation of the hard-coded driver of two patches
    sh,          \* a call of opencode_sync, opencode_build or opencode_upgrade
    setup,       \* the runs of setup.sh on one machine
    agents,      \* an invocation of apply-agents-patch.ts
    footer       \* a run of apply-commit-hash-footer-patch.ts

\* The variables of the configuration-driven tool.
tool == <<configDoc, env, artifacts, args, tree, config, pc, exitCode, err,
          applyOrder, idx, results, steps, before, calls, prev, edits, tree0,
          doc0, writes, reads, out, expanded>>

vars == <<tool, legacy, sh, setup, agents, footer>>

\* const PATCHES of the hard-coded driver.
PATCHES == <<"agents-md-enforcement", "commit-hash-footer">>

\* No call of a shell function of opencode-build.zsh.
NoShell ==
    [fn |-> "", mode |-> "", tags |-> {}, remote |-> {}, dev |-> "none", target |-> "",
     installed |-> "none", installed0 |-> "none", binary |-> "none", patchStatus |-> -1,
     pc |-> "off", rc |-> 0, log |-> <<>>]

\* No run of setup.sh.
NoSetup ==
    [dir |-> FALSE, zshrc |-> "missing", lines |-> 0, pc |-> "off", rc |-> 0,
     is_first_install |-> FALSE, run |-> 0, dir0 |-> FALSE, lines0 |-> 0,
     appended |-> FALSE]

\* No invocation of apply-agents-patch.ts.
NoAgents ==
    [command |-> "", pull |-> FALSE, git |-> FALSE, patchFile |-> FALSE,
     applied |-> FALSE, drifted |-> FALSE, marker |-> "absent", pc |-> "off",
     exitCode |-> 0, applied0 |-> FALSE, marker0 |-> "absent", wrote |-> 0,
     returned |-> "none", reverse |-> "none", thrown |-> FALSE]

\* No run of apply-commit-hash-footer-patch.ts.
NoFooter ==
    [disk |-> <<>>, appGo |-> <<>>, pc |-> "off", exitCode |-> 0, disk0 |-> <<>>,
     missing |-> ""]

\* No invocation of the hard-coded driver.
NoLegacy ==
    [command |-> "", git |-> FALSE, patchesDir |-> FALSE, pc |-> "off", exitCode |-> 0,
     call |-> <<"none", "none">>, results |-> <<"pending", "pending">>,
     target |-> <<"pristine", "pristine">>, file |-> <<FALSE, FALSE>>,
     writable |-> <<FALSE, FALSE>>, log |-> <<>>]

NoError == [msg |-> "", id |-> "", ids |-> {}]
NoTree ==
    [p \in Paths |-> [exists |-> FALSE, lines |-> {}, writable |-> FALSE, readable |-> FALSE]]
NoCall == [id |-> "", result |-> FALSE, steps |-> <<>>, diag |-> NoError,
           before |-> NoTree, after |-> NoTree]

\* The patch the apply loop is at.
current == config.patches[find(config.patches, applyOrder[idx])]

\* Variant: a failed patch is tried again.
nextIndex_Retries(i, result) ==
    IF result THEN i + 1 ELSE i

\* Variant: the loop stops at the first failed patch.
nextIndex_Stops(i, result) ==
    IF result THEN i + 1 ELSE Len(applyOrder) + 1

\* The loop of applyPatches goes on to the next id whatever the result was.
nextIndex(i, result) ==
    i + 1

\* Variant: the loop goes on to the next id while the call is pending.
awaitApplyPatch_NotAwaited(i) ==
    i + 1

\* await applyPatch(patch): while the call is pending the loop stays at the
\* id it called applyPatch for.
awaitApplyPatch(i) ==
    i

\* ------------------------------------------------------------ initial states
CategoryOf == [A |-> "conversation", B |-> "performance", C |-> "performance"]

\* Dependency lists of the three patches with at most MaxEdges edges in all.
Graphs ==
    {g \in [Ids -> SeqsNoRep(DepIds, MaxEdges)] :
        Len(g["A"]) + Len(g["B"]) + Len(g["C"]) <= MaxEdges}

NoDeps == [i \in Ids |-> <<>>]
\* B and C both depend on A.
SharedPrerequisite == [A |-> <<>>, B |-> <<"A">>, C |-> <<"A">>]

ConfigDocOf(g, enabled) ==
    [patches |-> [i \in 1..Len(RegistryOrder) |->
                    PatchConfig(RegistryOrder[i], CategoryOf[RegistryOrder[i]],
                                RegistryOrder[i] \in enabled, g[RegistryOrder[i]])],
     categories |-> Categories,
     comments |-> TRUE]

\* What one patch finds: the state of its target file and of its artifact.
Pristine == [exists |-> TRUE, lines |-> {OldLine}, writable |-> TRUE, readable |-> TRUE]
Fresh(id) == [exists |-> TRUE, path |-> PathOf[id], ctx |-> OldLine, add |-> NewLine]
Stale(id) == [Fresh(id) EXCEPT !.add = BadLine]
Missing(id) == [Fresh(id) EXCEPT !.exists = FALSE]

Situations ==
    {"pristine", "applied", "stale", "read-only", "drifted", "no-target",
     "no-artifact", "applied-no-artifact"}

TargetIn(k) ==
    CASE k \in {"applied", "applied-no-artifact"} -> [Pristine EXCEPT !.lines = {NewLine}]
      [] k = "read-only" -> [Pristine EXCEPT !.writable = FALSE]
      [] k = "drifted" -> [Pristine EXCEPT !.lines = {}]
      [] k = "no-target" -> [Pristine EXCEPT !.exists = FALSE, !.lines = {}]
      [] OTHER -> Pristine

ArtifactIn(k, id) ==
    CASE k \in {"no-artifact", "applied-no-artifact"} -> Missing(id)
      [] k = "stale" -> Stale(id)
      [] OTHER -> Fresh(id)

AllPresent == [git |-> TRUE, patchesDir |-> TRUE, configFile |-> TRUE, opencodeDir |-> TRUE]

\* The process at the entry of main, on the tree and the document it finds.
Started ==
    /\ config = NoConfig
    /\ pc = "main"
    /\ exitCode = 0
    /\ err = NoError
    /\ applyOrder = <<>>
    /\ idx = 1
    /\ results = <<>>
    /\ steps = <<>>
    /\ before = tree
    /\ calls = <<>>
    /\ prev = NoCall
    /\ edits = 0
    /\ tree0 = tree
    /\ doc0 = configDoc
    /\ writes = 0
    /\ reads = 0
    /\ out = <<>>
    /\ expanded = <<>>
    /\ legacy = NoLegacy
    /\ sh = NoShell
    /\ setup = NoSetup
    /\ agents = NoAgents
    /\ footer = NoFooter

InitWith(graphs, enabledSets, argSet, situations, envs) ==
    /\ \E g \in graphs, e \in enabledSets : configDoc = ConfigDocOf(g, e)
    /\ env \in envs
    /\ args \in argSet
    /\ \E k \in situations :
        /\ tree = [p \in Paths |-> TargetIn(k[CHOOSE i \in Ids : PathOf[i] = p])]
        /\ artifacts = [f \in PatchFiles |->
                          LET i == CHOOSE j \in Ids : FileOf[j] = f IN ArtifactIn(k[i], i)]
    /\ Started

\* The command lines of apply: --category and --all in every combination,
\* and --patch, which main parses for every command.
ApplyArgs ==
    [command : {"apply"}, patch : {NoPatch}, category : {NoCategory, "performance"},
     all : BOOLEAN]
    \cup [command : {"apply"}, patch : {"C"}, category : {NoCategory}, all : {FALSE}]

\* The command lines of enable and disable: without --patch, with a declared
\* id and with an undeclared one.
ManageArgs ==
    [command : {"enable", "disable"}, patch : {NoPatch} \cup DepIds,
     category : {NoCategory}, all : {FALSE}]

\* The command lines of status and list, with and without --category, and
\* those of help and of a command main does not know.
ReportArgs ==
    [command : {"status", "list"}, patch : {NoPatch},
     category : {NoCategory, "performance"}, all : {FALSE}]
    \cup [command : {"help", "bogus"}, patch : {NoPatch}, category : {NoCategory},
          all : {FALSE}]

OneTree == {[A |-> "pristine", B |-> "drifted", C |-> "applied"]}

\* Few registries, every situation of every patch; enable and disable on one
\* registry.
Init ==
    \/ InitWith({NoDeps, SharedPrerequisite}, {{"A"}, {"A", "B"}, Ids},
                [command : {"apply"}, patch : {NoPatch},
                 category : {NoCategory, "performance"}, all : BOOLEAN]
                \cup ReportArgs,
                [Ids -> Situations],
                {AllPresent, [AllPresent EXCEPT !.opencodeDir = FALSE]})
    \/ InitWith({SharedPrerequisite}, {{"A", "B"}}, ManageArgs, OneTree, {AllPresent})

\* Every registry of at most MaxEdges edges and every enabled set, one
\* situation of the tree; the other commands on one registry.
InitResolve ==
    \/ InitWith(Graphs, SUBSET Ids, ApplyArgs, OneTree, {AllPresent})
    \/ InitWith({SharedPrerequisite}, {{"A", "B"}}, ManageArgs \cup ReportArgs, OneTree,
                {AllPresent})

\* enable and disable on every registry whose patches have one dependency at
\* most, with every enabled set; apply on one registry.
InitManage ==
    \/ InitWith({g \in Graphs : \A i \in Ids : Len(g[i]) <= 1}, SUBSET Ids, ManageArgs,
                OneTree, {AllPresent})
    \/ InitWith({SharedPrerequisite}, {Ids}, ApplyArgs \cup ReportArgs, OneTree,
                {AllPresent, [AllPresent EXCEPT !.git = FALSE],
                 [AllPresent EXCEPT !.configFile = FALSE]})

\* The checkApplied blocks a document can give a patch: the type grep or
\* another word, up to MaxEntries entries, each naming a file and no, one or
\* two patterns.
CheckFiles ==
    [path : {PathOf["A"], PathOf["B"]},
     patterns : {<<>>, <<NewLine>>, <<Marker>>, <<NewLine, Marker>>}]

CheckShapes ==
    [type : {"grep", "regex"},
     files : UNION {[1..n -> CheckFiles] : n \in 0..MaxEntries}]

\* What grep can find at a path: no file, a file it cannot open, or a
\* readable file with any of the lines looked for.
TargetStates ==
    {NoTree[PathOf["A"]], [Pristine EXCEPT !.lines = {NewLine, Marker}, !.readable = FALSE]}
    \cup {[Pristine EXCEPT !.lines = l] : l \in SUBSET {NewLine, Marker}}

\* status on a registry whose first patch has any checkApplied block, over
\* every state of the two files the block can name; the other commands on
\* one registry.
InitVerify ==
    \/ /\ \E c \in CheckShapes :
            configDoc = [ConfigDocOf(NoDeps, Ids) EXCEPT !.patches[1].checkApplied = c]
       /\ env \in {AllPresent, [AllPresent EXCEPT !.opencodeDir = FALSE]}
       /\ args = [command |-> "status", patch |-> NoPatch, category |-> NoCategory,
                  all |-> FALSE]
       /\ \E t \in [{PathOf["A"], PathOf["B"]} -> TargetStates] :
            tree = [p \in Paths |-> IF p \in DOMAIN t THEN t[p] ELSE Pristine]
       /\ artifacts = [f \in PatchFiles |-> Fresh(CHOOSE j \in Ids : FileOf[j] = f)]
       /\ Started
    \/ InitWith({SharedPrerequisite}, {Ids}, ApplyArgs \cup ManageArgs \cup ReportArgs,
                OneTree, {AllPresent})

\* The configuration-driven tool is not running.
ToolIdle ==
    /\ \E g \in {NoDeps}, e \in {Ids} : configDoc = ConfigDocOf(g, e)
    /\ env = AllPresent
    /\ args = [command |-> "help", patch |-> NoPatch, category |-> NoCategory, all |-> FALSE]
    /\ tree = [p \in Paths |-> Pristine]
    /\ artifacts = [f \in PatchFiles |-> Fresh(CHOOSE j \in Ids : FileOf[j] = f)]
    /\ config = NoConfig
    /\ pc = "main"
    /\ exitCode = 0
    /\ err = NoError
    /\ applyOrder = <<>>
    /\ idx = 1
    /\ results = <<>>
    /\ steps = <<>>
    /\ before = tree
    /\ calls = <<>>
    /\ prev = NoCall
    /\ edits = 0
    /\ tree0 = tree
    /\ doc0 = configDoc
    /\ writes = 0
    /\ reads = 0
    /\ out = <<>>
    /\ expanded = <<>>

\* The hard-coded driver is invoked with any command, with .git and the
\* patches directory present or not; each patch finds its target files
\* without its change, with it, or changed otherwise, its artifact present or
\* not, and its target files writable or not.
InitLegacy ==
    /\ legacy \in [command : {"apply", "status", "help", "bogus"},
                    git : BOOLEAN, patchesDir : BOOLEAN,
                    pc : {"main"}, exitCode : {0},
                    call : {<<"none", "none">>}, results : {<<"pending", "pending">>},
                    target : [1..Len(PATCHES) -> {"pristine", "applied", "drifted"}],
                    file : [1..Len(PATCHES) -> BOOLEAN],
                    writable : [1..Len(PATCHES) -> BOOLEAN],
                    log : {<<>>}]
    /\ ToolIdle
    /\ sh = NoShell
    /\ setup = NoSetup
    /\ agents = NoAgents
    /\ footer = NoFooter

\* ------------------------------------------------------------------ actions
\* The process ends with a status and a message naming `id` and listing `ids`.
ExitListing(code, message, id, ids) ==
    /\ pc' = "exit"
    /\ exitCode' = code
    /\ err' = [msg |-> message, id |-> id, ids |-> ids]

Exit(code, message, id) ==
    ExitListing(code, message, id, {})

\* main up to the call its switch makes: the checks of .git and PATCHES_DIR,
\* loadConfig, then the command; for apply, checkGitStatus only reads and
\* warns; enable and disable need the --patch option.
Main ==
    /\ pc = "main"
    /\ IF ~env.git
       THEN Exit(1, "Not in a git repository", "") /\ UNCHANGED <<config, reads>>
       ELSE IF ~env.patchesDir
       THEN Exit(1, "Patches directory not found", "") /\ UNCHANGED <<config, reads>>
       ELSE IF ~env.configFile
       THEN Exit(1, "Configuration file not found", "") /\ UNCHANGED <<config, reads>>
       ELSE /\ config' = YAML_parse(configDoc)
            /\ reads' = reads + 1
            /\ LET to == dispatch(args.command, args.patch) IN
               CASE to = "missing-patch" -> Exit(1, MissingPatchOption, "")
                 [] to = "help" -> Exit(0, "", "")
                 [] to = "unknown" -> Exit(1, UnknownCommand, args.command)
                 [] OTHER -> pc' = to /\ UNCHANGED <<exitCode, err>>
    /\ UNCHANGED <<configDoc, doc0, writes, out, env, legacy, sh, setup, agents, footer, expanded, artifacts, args, tree, applyOrder, idx,
                   results, steps, before, calls, prev, edits, tree0>>

\* applyPatches up to its apply loop: the filter, the early return on an
\* empty selection, and the resolution of every selected patch.
ApplyPatches_Resolve ==
    /\ pc = "applyPatches"
    /\ LET roots == patchesToApply(config, args) IN
       IF Len(roots) = 0
       THEN Exit(0, "No patches to apply", "") /\ UNCHANGED <<applyOrder, expanded>>
       ELSE LET r == resolveAll(config.patches, roots, 1, {}, <<>>) IN
            /\ applyOrder' = r.applyOrder
            /\ expanded' = r.expanded
            /\ IF r.exit # "" THEN Exit(1, r.exit, r.errId)
               ELSE pc' = "applyPatch" /\ UNCHANGED <<exitCode, err>>
    /\ idx' = 1
    /\ UNCHANGED <<configDoc, doc0, writes, reads, out, env, legacy, sh, setup, agents, footer, artifacts, args, tree, config, results, steps,
                   before, calls, prev, edits, tree0>>

\* applyPatch returns: the apply loop pushes the result and moves on.
Return(result, ran, diag, after) ==
    LET call == [id |-> applyOrder[idx], result |-> result, steps |-> ran, diag |-> diag,
                 before |-> IF Len(ran) = 1 THEN tree ELSE before, after |-> after]
    IN  /\ calls' = Append(calls, call)
        /\ prev' = prev
        /\ results' = Append(results, result)
        /\ idx' = nextIndex(idx, result)
        /\ steps' = <<>>
        /\ pc' = "applyPatch"

\* One turn of the apply loop, up to the first await of applyPatch's try block.
ApplyPatch_Start ==
    /\ pc = "applyPatch"
    /\ idx <= Len(applyOrder)
    /\ IF find(config.patches, applyOrder[idx]) = 0
       THEN /\ idx' = idx + 1
            /\ UNCHANGED <<pc, results, steps, before, calls, prev>>
       ELSE LET stage == applyPatchStart(current, tree, artifacts, env) IN
            CASE stage = "satisfied" ->
                    Return(TRUE, <<"verify">>, NoError, tree) /\ UNCHANGED before
              [] stage = "no-artifact" ->
                    Return(FALSE, <<"verify">>,
                           [msg |-> "Patch file not found", id |-> current.file], tree)
                    /\ UNCHANGED before
              [] stage = "no-directory" ->
                    Return(FALSE, <<"verify">>,
                           [msg |-> "OpenCode directory not found", id |-> ""], tree)
                    /\ UNCHANGED before
              [] OTHER ->
                    /\ pc' = "dry-run"
                    /\ steps' = <<"verify">>
                    /\ before' = tree
                    /\ idx' = awaitApplyPatch(idx)
                    /\ UNCHANGED <<results, calls, prev>>
    /\ UNCHANGED <<configDoc, doc0, writes, reads, out, env, legacy, sh, setup, agents, footer, expanded, artifacts, args, tree, config, exitCode, err,
                   applyOrder, edits, tree0>>

\* git apply --check
ApplyPatch_DryRun ==
    /\ pc = "dry-run"
    /\ LET exit0 == gitApplyCheck(tree, artifacts[current.file]) IN
       /\ pc' = afterDryRun(exit0)
       /\ steps' = Append(steps, IF exit0 THEN "check-ok" ELSE "check-failed")
    /\ UNCHANGED <<configDoc, doc0, writes, reads, out, env, legacy, sh, setup, agents, footer, expanded, artifacts, args, tree, config, exitCode, err,
                   applyOrder, idx, results, before, calls, prev, edits, tree0>>

\* git apply
ApplyPatch_Apply ==
    /\ pc = "apply"
    /\ LET art == artifacts[current.file]
           exit0 == gitApplyExit0(tree, art)
       IN  /\ tree' = gitApply(tree, art)
           /\ IF afterApply(exit0) = "return-true"
              THEN Return(TRUE, Append(steps, "apply-ok"), NoError, gitApply(tree, art))
              ELSE /\ pc' = "catch"
                   /\ steps' = Append(steps, "apply-failed")
                   /\ UNCHANGED <<idx, results, calls, prev>>
    /\ UNCHANGED <<configDoc, doc0, writes, reads, out, env, legacy, sh, setup, agents, footer, expanded, artifacts, args, config, exitCode, err, applyOrder,
                   before, edits, tree0>>

\* The catch block of applyPatch.
ApplyPatch_Catch ==
    /\ pc = "catch"
    /\ IF applyPatchCatch(current, tree, env) = "return-true"
       THEN Return(TRUE, Append(steps, "re-verify"), NoError, tree)
       ELSE Return(FALSE, Append(steps, "re-verify"),
                   [msg |-> "Failed to apply patch", id |-> current.id], tree)
    /\ UNCHANGED <<configDoc, doc0, writes, reads, out, env, legacy, sh, setup, agents, footer, expanded, artifacts, args, tree, config, exitCode, err,
                   applyOrder, before, edits, tree0>>

\* enablePatch and disablePatch: the Config object is changed and saved, or
\* the call ends without saving.
Manage(outcome) ==
    /\ config' = outcome.config
    /\ IF outcome.saved
       THEN configDoc' = YAML_stringify(outcome.config) /\ writes' = writes + 1
       ELSE UNCHANGED <<configDoc, writes>>
    /\ ExitListing(outcome.code, outcome.msg, args.patch, outcome.ids)
    /\ UNCHANGED <<doc0, reads, out, env, legacy, sh, setup, agents, footer, expanded, artifacts, args, tree, applyOrder, idx, results,
                   steps, before, calls, prev, edits, tree0>>

EnablePatch ==
    /\ pc = "enablePatch"
    /\ Manage(enablePatch(config, args.patch))

DisablePatch ==
    /\ pc = "disablePatch"
    /\ Manage(disablePatch(config, args.patch))

\* status and list print and return; a throw ends the process in failure.
Report(report) ==
    /\ IF report.threw THEN Exit(1, ScriptFailed, "") /\ out' = out
       ELSE Exit(0, "", "") /\ out' = report.lines
    /\ UNCHANGED <<configDoc, doc0, writes, reads, env, legacy, sh, setup, agents, footer, expanded, artifacts, args, tree, config,
                   applyOrder, idx, results, steps, before, calls, prev, edits, tree0>>

ShowStatus ==
    /\ pc = "showStatus"
    /\ Report(showStatus(config, args, tree, env.opencodeDir))

ListPatches ==
    /\ pc = "listPatches"
    /\ Report(listPatches(config, args))

\* After the apply loop: the count of failed results decides the exit.
ApplyPatches_Report ==
    /\ pc = "applyPatch"
    /\ idx > Len(applyOrder)
    /\ IF failed(results) > 0 THEN Exit(1, PatchesFailed, "")
       ELSE Exit(0, "", "")
    /\ UNCHANGED <<configDoc, doc0, writes, reads, out, env, legacy, sh, setup, agents, footer, expanded, artifacts, args, tree, config, applyOrder, idx,
                   results, steps, before, calls, prev, edits, tree0>>

\* Another process writes the content the patch in flight is verified by
\* (the race the catch block's second verification is there for).
ExternalEdit ==
    /\ pc \in {"dry-run", "apply", "catch"}
    /\ edits < MaxExternalEdits
    /\ \E i \in 1..Len(current.checkApplied.files) :
        LET file == current.checkApplied.files[i] IN
        /\ tree' = [tree EXCEPT ![file.path].exists = TRUE,
                                ![file.path].lines = @ \cup Range(file.patterns)]
        /\ tree' # tree
    /\ edits' = edits + 1
    /\ UNCHANGED <<configDoc, doc0, writes, reads, out, env, legacy, sh, setup, agents, footer, expanded, artifacts, args, config, pc, exitCode, err,
                   applyOrder, idx, results, steps, before, calls, prev, tree0>>

\* The tool is invoked again with the same command line on the tree as the
\* invocation before left it.
Rerun ==
    /\ pc = "exit"
    /\ pc' = "main"
    /\ config' = NoConfig
    /\ exitCode' = 0
    /\ err' = NoError
    /\ applyOrder' = <<>>
    /\ idx' = 1
    /\ results' = <<>>
    /\ steps' = <<>>
    /\ before' = tree
    /\ calls' = <<>>
    /\ edits' = 0
    /\ tree0' = tree
    /\ prev' = IF calls = <<>> THEN prev ELSE calls[Len(calls)]
    /\ doc0' = configDoc
    /\ writes' = 0
    /\ reads' = 0
    /\ out' = <<>>
    /\ expanded' = <<>>
    /\ UNCHANGED <<configDoc, env, legacy, sh, setup, agents, footer, artifacts, args, tree>>

Next ==
    \/ Main
    \/ ApplyPatches_Resolve
    \/ ApplyPatch_Start
    \/ ApplyPatch_DryRun
    \/ ApplyPatch_Apply
    \/ ApplyPatch_Catch
    \/ ApplyPatches_Report
    \/ EnablePatch
    \/ DisablePatch
    \/ ShowStatus
    \/ ListPatches
    \/ ExternalEdit
    \/ Rerun

Spec == Init /\ [][Next]_vars

SpecResolve == InitResolve /\ [][Next]_vars

SpecManage == InitManage /\ [][Next]_vars

SpecVerify == InitVerify /\ [][Next]_vars

\* --------------------------------------------------- the hard-coded driver
\* main of the hard-coded driver: the two existence checks and the switch.
LegacyMain ==
    /\ legacy.pc = "main"
    /\ legacy' =
         IF ~legacy.git \/ ~legacy.patchesDir
         THEN [legacy EXCEPT !.pc = "exit", !.exitCode = 1]
         ELSE CASE legacy.command = "apply" -> [legacy EXCEPT !.pc = "applyAllPatches"]
                [] legacy.command = "status" -> [legacy EXCEPT !.pc = "showStatus"]
                [] legacy.command = "help" -> [legacy EXCEPT !.pc = "exit"]
                [] OTHER -> [legacy EXCEPT !.pc = "exit", !.exitCode = 1]
    /\ UNCHANGED <<tool, sh, setup, agents, footer>>

\* PATCHES.map((patch) => applyPatch(patch)): every call is started, each
\* running up to its first await, the grep of patch.checkApplied().
LegacyApplyAllPatches ==
    /\ legacy.pc = "applyAllPatches"
    /\ \A n \in 1..Len(PATCHES) : legacy.call[n] = "none"
    /\ legacy' = [legacy EXCEPT !.call = [n \in 1..Len(PATCHES) |-> "verify"]]
    /\ UNCHANGED <<tool, sh, setup, agents, footer>>

\* patch.checkApplied(): both greps of the patch succeed.
LegacyCheckApplied(n) == legacy.target[n] = "applied"

\* The call of applyPatch for patch n returns `result`.
LegacyReturn(n, result, step) ==
    [legacy EXCEPT !.call[n] = "returned",
                   !.results[n] = IF result THEN "true" ELSE "false",
                   !.log = Append(@, [patch |-> n, step |-> step])]

\* The call goes on to its next await.
LegacyAwait(n, stage, step) ==
    [legacy EXCEPT !.call[n] = stage, !.log = Append(@, [patch |-> n, step |-> step])]

\* applyPatch resumes after checkApplied: already applied, artifact missing,
\* or git apply --check is started.
LegacyVerify(n) ==
    /\ legacy.call[n] = "verify"
    /\ legacy' = IF LegacyCheckApplied(n) THEN LegacyReturn(n, TRUE, "verify")
                 ELSE IF ~legacy.file[n] THEN LegacyReturn(n, FALSE, "verify")
                 ELSE LegacyAwait(n, "dry-run", "verify")
    /\ UNCHANGED <<tool, sh, setup, agents, footer>>

\* git apply --check has ended: git apply is started, or the catch block is
\* entered.
LegacyDryRun(n) ==
    /\ legacy.call[n] = "dry-run"
    /\ legacy' = IF legacy.target[n] = "pristine" THEN LegacyAwait(n, "apply", "dry-run")
                 ELSE LegacyAwait(n, "catch", "dry-run")
    /\ UNCHANGED <<tool, sh, setup, agents, footer>>

\* git apply has ended: the change is in the tree and the call returns true,
\* or the catch block is entered.
LegacyApply(n) ==
    /\ legacy.call[n] = "apply"
    /\ legacy' = IF legacy.target[n] = "pristine" /\ legacy.writable[n]
                 THEN [LegacyReturn(n, TRUE, "apply") EXCEPT !.target[n] = "applied"]
                 ELSE LegacyAwait(n, "catch", "apply-failed")
    /\ UNCHANGED <<tool, sh, setup, agents, footer>>

\* The catch block: checkApplied again decides the result.
LegacyCatch(n) ==
    /\ legacy.call[n] = "catch"
    /\ legacy' = LegacyReturn(n, LegacyCheckApplied(n), "re-verify")
    /\ UNCHANGED <<tool, sh, setup, agents, footer>>

\* Promise.all has settled: the false results are counted.
LegacySettled ==
    /\ legacy.pc = "applyAllPatches"
    /\ \A n \in 1..Len(PATCHES) : legacy.call[n] = "returned"
    /\ legacy' = [legacy EXCEPT !.pc = "exit",
                                !.exitCode = IF \E n \in 1..Len(PATCHES) :
                                                    legacy.results[n] = "false"
                                             THEN 1 ELSE 0]
    /\ UNCHANGED <<tool, sh, setup, agents, footer>>

\* showStatus of the hard-coded driver: checkApplied of each patch in turn.
LegacyShowStatus ==
    /\ legacy.pc = "showStatus"
    /\ legacy' = [legacy EXCEPT !.pc = "exit"]
    /\ UNCHANGED <<tool, sh, setup, agents, footer>>

NextLegacy ==
    \/ LegacyMain
    \/ LegacyApplyAllPatches
    \/ \E n \in 1..Len(PATCHES) : LegacyVerify(n)
    \/ \E n \in 1..Len(PATCHES) : LegacyDryRun(n)
    \/ \E n \in 1..Len(PATCHES) : LegacyApply(n)
    \/ \E n \in 1..Len(PATCHES) : LegacyCatch(n)
    \/ LegacySettled
    \/ LegacyShowStatus

SpecLegacy == InitLegacy /\ [][NextLegacy]_vars

\* ------------------------------------------------------ opencode-build.zsh
\* The tags a repository can hold: release tags, a pre-release and a tag that
\* is not a version.
Tags == {"nightly", "v2.1.0", "v2.10.0", "v10.0.0", "v10.0.1-rc1"}

\* The numbers of a refname after its leading v, and what follows them.
chunks ==
    "nightly" :> <<>> @@ "v2.1.0" :> <<2, 1, 0>> @@ "v2.10.0" :> <<2, 10, 0>>
    @@ "v10.0.0" :> <<10, 0, 0>> @@ "v10.0.1-rc1" :> <<10, 0, 1>>

suffix ==
    "nightly" :> "nightly" @@ "v2.1.0" :> "" @@ "v2.10.0" :> "" @@ "v10.0.0" :> ""
    @@ "v10.0.1-rc1" :> "-rc1"

\* Variant: the refnames are compared as plain strings, character by
\* character.
versionLess_Refname(a, b) ==
    LET rank == "nightly" :> 1 @@ "v10.0.0" :> 2 @@ "v10.0.1-rc1" :> 3 @@ "v2.1.0" :> 4
                @@ "v2.10.0" :> 5
    IN  rank[a] < rank[b]

\* version:refname, the order of git tag --sort: a name that does not start
\* with v sorts first, runs of digits compare as numbers, and of two names
\* with the same numbers the one without a suffix sorts first.
versionLess(a, b) ==
    IF chunks[a] = <<>> THEN chunks[b] # <<>>
    ELSE IF chunks[b] = <<>> THEN FALSE
    ELSE \/ \E k \in 1..3 : /\ chunks[a][k] < chunks[b][k]
                            /\ \A j \in 1..(k - 1) : chunks[a][j] = chunks[b][j]
         \/ chunks[a] = chunks[b] /\ suffix[a] = "" /\ suffix[b] # ""

RECURSIVE gitTagSorted(_)
\* git tag --sort=-version:refname: the tags, the highest first.
gitTagSorted(tags) ==
    IF tags = {} THEN <<>>
    ELSE LET top == CHOOSE t \in tags : \A u \in tags \ {t} : versionLess(u, t)
         IN  <<top>> \o gitTagSorted(tags \ {top})

\* grep -E '^v[0-9]+\.[0-9]+\.[0-9]+$'
grepRelease(lines) ==
    SelectSeq(lines, LAMBDA t : Len(chunks[t]) = 3 /\ suffix[t] = "")

\* target_ref of the sync subshell.
targetRef(mode, tags) ==
    IF mode = "release"
    THEN LET found == grepRelease(gitTagSorted(tags))
         IN  IF found = <<>> THEN "sst/dev" ELSE Head(found)
    ELSE "sst/dev"

\* Variant: the build goes on whatever the exit status of the patch script.
afterPatches_Ignored(status) == "restore"

\* opencode_build after the patch script has run with `status`.
afterPatches(status) == IF status = 0 THEN "restore" ELSE "return"

\* Variant: the binary is installed without being run.
validated_Skipped(binary) == binary # "none"

\* [[ -f $BINARY_PATH ]] and $BINARY_PATH --version both succeed.
validated(binary) == binary = "good"

\* A function of opencode-build.zsh is called: the build mode, the tags of
\* the repository and of the sst remote, the local dev branch and the
\* installed binary are as the call finds them.
InitShell ==
    /\ sh \in [fn : {"opencode_sync", "opencode_build", "opencode_upgrade"},
                mode : {"release", "commit"},
                tags : SUBSET {"nightly", "v2.10.0"},
                remote : SUBSET Tags,
                dev : {"none", "old"},
                target : {""},
                installed : {"none", "old"},
                installed0 : {"none", "old"},
                binary : {"none", "good"},
                patchStatus : {-1},
                pc : {"validate_env"}, rc : {0}, log : {<<>>}]
    /\ sh.installed0 = sh.installed
    /\ ToolIdle
    /\ legacy = NoLegacy
    /\ setup = NoSetup
    /\ agents = NoAgents
    /\ footer = NoFooter

\* The function returns `code`.
ShReturn(code) == [sh EXCEPT !.pc = "return", !.rc = code]

\* _validate_env: bun is on the PATH and the opencode clone is there, after
\* _auto_setup when needed.
ValidateEnv ==
    /\ sh.pc = "validate_env"
    /\ \E ok \in BOOLEAN : sh' = IF ok THEN [sh EXCEPT !.pc = "fetch"] ELSE ShReturn(1)
    /\ UNCHANGED <<tool, legacy, setup, agents, footer>>

\* The sync subshell up to the choice of the target: remote, stash, git
\* fetch sst --tags, and target_ref by OPENCODE_BUILD_MODE.
Fetch ==
    /\ sh.pc = "fetch"
    /\ \E ok \in BOOLEAN :
        sh' = IF ok
              THEN [sh EXCEPT !.pc = "checkout",
                              !.tags = sh.tags \cup sh.remote,
                              !.target = targetRef(sh.mode, sh.tags \cup sh.remote),
                              !.log = Append(@, "sync")]
              ELSE [ShReturn(1) EXCEPT !.log = Append(@, "sync")]
    /\ UNCHANGED <<tool, legacy, setup, agents, footer>>

\* git checkout dev (which makes dev from sst/dev when there is none), or git
\* checkout -b dev target_ref when that fails, then git reset --hard
\* target_ref; opencode_sync returns here.
CheckoutReset ==
    /\ sh.pc = "checkout"
    /\ \E checkout \in BOOLEAN, create \in BOOLEAN, reset \in BOOLEAN :
        LET created == ~checkout /\ sh.dev = "none" /\ create
            onDev == checkout \/ created
            at == IF sh.dev # "none" THEN sh.dev
                  ELSE IF created THEN sh.target ELSE "sst/dev"
        IN  sh' = IF ~onDev THEN ShReturn(1)
                  ELSE IF ~reset THEN [ShReturn(1) EXCEPT !.dev = at]
                  ELSE IF sh.fn = "opencode_sync"
                  THEN [ShReturn(0) EXCEPT !.dev = sh.target]
                  ELSE [sh EXCEPT !.pc = "patch", !.dev = sh.target]
    /\ UNCHANGED <<tool, legacy, setup, agents, footer>>

\* The patch script is looked for and run with the command apply.
ApplyPatchesPhase ==
    /\ sh.pc = "patch"
    /\ \E exists \in BOOLEAN, status \in {0, 1} :
        sh' = IF ~exists THEN ShReturn(1)
              ELSE IF afterPatches(status) = "return"
              THEN [ShReturn(1) EXCEPT !.patchStatus = status, !.log = Append(@, "patch")]
              ELSE [sh EXCEPT !.pc = afterPatches(status), !.patchStatus = status,
                              !.log = Append(@, "patch")]
    /\ UNCHANGED <<tool, legacy, setup, agents, footer>>

\* The build script is copied into the clone and the dist directory removed.
RestoreBuildScript ==
    /\ sh.pc = "restore"
    /\ \E exists \in BOOLEAN :
        sh' = IF ~exists THEN ShReturn(1)
              ELSE [sh EXCEPT !.pc = "bun-install", !.binary = "none"]
    /\ UNCHANGED <<tool, legacy, setup, agents, footer>>

\* Building...: bun install.
BunInstall ==
    /\ sh.pc = "bun-install"
    /\ \E ok \in BOOLEAN :
        sh' = IF ok THEN [sh EXCEPT !.pc = "build", !.log = Append(@, "build")]
              ELSE [ShReturn(1) EXCEPT !.log = Append(@, "build")]
    /\ UNCHANGED <<tool, legacy, setup, agents, footer>>

\* bun $BUILD_SCRIPT: whatever its exit status, it leaves no binary, one that
\* does not run, or one that runs.
Build ==
    /\ sh.pc = "build"
    /\ \E status \in {0, 1}, binary \in {"none", "bad", "good"} :
        sh' = IF status = 0 THEN [sh EXCEPT !.pc = "validate", !.binary = binary]
              ELSE [ShReturn(1) EXCEPT !.binary = binary]
    /\ UNCHANGED <<tool, legacy, setup, agents, footer>>

\* Validate binary, the end of opencode_build; opencode_upgrade goes on when
\* opencode_build returned 0.
ValidateBinary ==
    /\ sh.pc = "validate"
    /\ sh' = IF ~validated(sh.binary) THEN ShReturn(1)
             ELSE IF sh.fn = "opencode_build" THEN ShReturn(0)
             ELSE [sh EXCEPT !.pc = "install", !.log = Append(@, "install")]
    /\ UNCHANGED <<tool, legacy, setup, agents, footer>>

\* Installing...: the binary is validated again, the old installation is
\* removed and the binary moved to INSTALL_PATH; opencode must then be found
\* on the PATH.
Install ==
    /\ sh.pc = "install"
    /\ \E moved \in BOOLEAN, onPath \in BOOLEAN :
        sh' = IF ~validated(sh.binary) THEN ShReturn(1)
              ELSE IF ~moved THEN [ShReturn(1) EXCEPT !.installed = "none"]
              ELSE [ShReturn(IF onPath THEN 0 ELSE 1) EXCEPT
                        !.installed = sh.binary, !.binary = "none"]
    /\ UNCHANGED <<tool, legacy, setup, agents, footer>>

NextShell ==
    \/ ValidateEnv
    \/ Fetch
    \/ CheckoutReset
    \/ ApplyPatchesPhase
    \/ RestoreBuildScript
    \/ BunInstall
    \/ Build
    \/ ValidateBinary
    \/ Install

SpecShell == InitShell /\ [][NextShell]_vars

\* ------------------------------------------------------------------ setup.sh
\* Variant: the source line is appended without looking for it.
add_source_to_zshrc_NoGrep(zshrc, lines) == lines + 1

\* add_source_to_zshrc: the number of source lines in ~/.zshrc afterwards;
\* grep -qF finds the line iff the file exists and holds it.
add_source_to_zshrc(zshrc, lines) ==
    IF zshrc = "present" /\ lines >= 1 THEN lines ELSE lines + 1

\* setup.sh is run on a machine with or without the tools directory, with no
\* ~/.zshrc, one without the source line or one with it.
InitSetup ==
    /\ setup \in [dir : BOOLEAN, zshrc : {"missing", "present"}, lines : {0, 1},
                   pc : {"main"}, rc : {0}, is_first_install : {FALSE}, run : {1},
                   dir0 : BOOLEAN, lines0 : {0, 1}, appended : {FALSE}]
    /\ setup.lines = 1 => setup.zshrc = "present"
    /\ setup.dir0 = setup.dir /\ setup.lines0 = setup.lines
    /\ ToolIdle
    /\ legacy = NoLegacy
    /\ sh = NoShell
    /\ agents = NoAgents
    /\ footer = NoFooter

\* set -e or an explicit exit 1 ends the run.
SetupExit(code) == [setup EXCEPT !.pc = "exit", !.rc = code]

\* main up to the installer: is_first_install, then git and bun are looked
\* for.
SetupMain ==
    /\ setup.pc = "main"
    /\ \E found \in BOOLEAN :
        setup' = IF found
                 THEN [setup EXCEPT !.pc = "install-tools", !.is_first_install = ~setup.dir]
                 ELSE [SetupExit(1) EXCEPT !.is_first_install = ~setup.dir]
    /\ UNCHANGED <<tool, legacy, sh, agents, footer>>

\* install-tools.zsh, from the workspace or a temporary clone: it makes the
\* tools directory first; a failure of the clone or of a later step ends the
\* run.
InstallTools ==
    /\ setup.pc = "install-tools"
    /\ \E ok \in BOOLEAN, made \in BOOLEAN :
        setup' = IF ok THEN [setup EXCEPT !.pc = "setup_opencode_repo", !.dir = TRUE]
                 ELSE [SetupExit(1) EXCEPT !.dir = setup.dir \/ made]
    /\ UNCHANGED <<tool, legacy, sh, agents, footer>>

\* setup_opencode_repo: a failing git command ends the run.
SetupOpencodeRepo ==
    /\ setup.pc = "setup_opencode_repo"
    /\ \E ok \in BOOLEAN :
        setup' = IF ok THEN [setup EXCEPT !.pc = "configure"] ELSE SetupExit(1)
    /\ UNCHANGED <<tool, legacy, sh, agents, footer>>

\* The end of main: add_source_to_zshrc on a first installation only.
ConfigureShell ==
    /\ setup.pc = "configure"
    /\ setup' =
         IF setup.is_first_install
         THEN [SetupExit(0) EXCEPT
                  !.lines = add_source_to_zshrc(setup.zshrc, setup.lines),
                  !.zshrc = "present",
                  !.appended = add_source_to_zshrc(setup.zshrc, setup.lines) # setup.lines]
         ELSE SetupExit(0)
    /\ UNCHANGED <<tool, legacy, sh, agents, footer>>

\* Between two runs the user removes the tools directory.
RemoveToolsDir ==
    /\ setup.pc = "exit" /\ setup.dir
    /\ setup' = [setup EXCEPT !.dir = FALSE]
    /\ UNCHANGED <<tool, legacy, sh, agents, footer>>

\* Between two runs the user takes the source line out of ~/.zshrc, or
\* removes the file.
RemoveSourceLine ==
    /\ setup.pc = "exit" /\ setup.zshrc = "present"
    /\ \E kept \in {"missing", "present"} :
        /\ setup' = [setup EXCEPT !.lines = 0, !.zshrc = kept]
        /\ setup' # setup
    /\ UNCHANGED <<tool, legacy, sh, agents, footer>>

\* setup.sh is run again.
SetupAgain ==
    /\ setup.pc = "exit" /\ setup.run < MaxRuns
    /\ setup' = [setup EXCEPT !.pc = "main", !.rc = 0, !.run = @ + 1,
                              !.is_first_install = FALSE, !.appended = FALSE,
                              !.dir0 = setup.dir, !.lines0 = setup.lines]
    /\ UNCHANGED <<tool, legacy, sh, agents, footer>>

NextSetup ==
    \/ SetupMain
    \/ InstallTools
    \/ SetupOpencodeRepo
    \/ ConfigureShell
    \/ RemoveToolsDir
    \/ RemoveSourceLine
    \/ SetupAgain

SpecSetup == InitSetup /\ [][NextSetup]_vars

\* ---------------------------------------------------- apply-agents-patch.ts
\* The three descriptions applyPatch writes into the marker file.
AlreadyInCode == "detected as already applied in code"
MovesRules == "moves rules to conversation context"
DespiteGitError == "detected as already applied despite git error"

\* isPatchApplied: the three greps find the changes in the code.
isPatchApplied(a) == a.applied

\* Bun.write of MARKER_FILE: the file holds the description, or the write
\* throws and the file is as it was.
writeMarker(a, description, ok) ==
    IF ok THEN [a EXCEPT !.marker = description, !.wrote = @ + 1]
    ELSE [a EXCEPT !.thrown = TRUE]

\* Variant: the marker is also written when the application failed.
applyPatch_MarksFailure(a, w1, w2) ==
    IF isPatchApplied(a)
    THEN [writeMarker(a, AlreadyInCode, w1) EXCEPT !.returned = IF w1 THEN "true" ELSE "throw"]
    ELSE LET tried == IF ~a.drifted THEN [a EXCEPT !.applied = TRUE] ELSE a
         IN  IF ~a.drifted /\ w1
             THEN [writeMarker(tried, MovesRules, TRUE) EXCEPT !.returned = "true"]
             ELSE IF isPatchApplied(tried)
                  THEN [writeMarker(tried, DespiteGitError, w2) EXCEPT
                           !.returned = IF w2 THEN "true" ELSE "throw"]
                  ELSE [writeMarker(tried, DespiteGitError, TRUE) EXCEPT
                           !.returned = "false"]

\* applyPatch: what the call leaves and returns; w1 and w2 say whether its
\* first and its second Bun.write succeed.  git apply --check and git apply
\* succeed on code that has not drifted from what the patch was cut from; a
\* failure inside the try block, of git or of Bun.write, is caught, and the
\* catch block looks for the changes again.
applyPatch(a, w1, w2) ==
    IF isPatchApplied(a)
    THEN [writeMarker(a, AlreadyInCode, w1) EXCEPT !.returned = IF w1 THEN "true" ELSE "throw"]
    ELSE LET tried == IF ~a.drifted THEN [a EXCEPT !.applied = TRUE] ELSE a
         IN  IF ~a.drifted /\ w1
             THEN [writeMarker(tried, MovesRules, TRUE) EXCEPT !.returned = "true"]
             ELSE IF isPatchApplied(tried)
                  THEN [writeMarker(tried, DespiteGitError, w2) EXCEPT
                           !.returned = IF w2 THEN "true" ELSE "throw"]
                  ELSE [tried EXCEPT !.returned = "false"]

\* Variant: the marker is removed before the reverse application is tried.
revertPatch_RemovesFirst(a) ==
    IF a.applied /\ ~a.drifted
    THEN [a EXCEPT !.applied = FALSE, !.marker = "absent", !.reverse = "ok",
                   !.returned = "true"]
    ELSE [a EXCEPT !.marker = "absent", !.reverse = "failed", !.returned = "false"]

\* revertPatch: git apply --reverse succeeds on patched code that has not
\* drifted; the marker is removed after it, when it exists.
revertPatch(a) ==
    IF a.applied /\ ~a.drifted
    THEN [a EXCEPT !.applied = FALSE,
                   !.marker = IF a.marker # "absent" THEN "absent" ELSE @,
                   !.reverse = "ok", !.returned = "true"]
    ELSE [a EXCEPT !.reverse = "failed", !.returned = "false"]

\* Variant: a failed application or revert is reported in the exit status.
settled_FailsOnFalse(a) ==
    [a EXCEPT !.pc = "exit",
              !.exitCode = IF a.thrown \/ a.returned = "false" THEN 1 ELSE 0]

\* main().catch: main returns and the process ends with 0, or an exception
\* reaches the handler, which exits with 1.
settled(a) ==
    [a EXCEPT !.pc = "exit", !.exitCode = IF a.thrown THEN 1 ELSE 0]

\* The script is started with a command and maybe --pull, in a directory with
\* or without .git and the patch file, on code with or without the changes,
\* drifted or not, with no marker file, one the script wrote or another file
\* of that name.
InitAgents ==
    /\ agents \in [command : {"apply", "revert", "status", "help", "bogus"},
                    pull : BOOLEAN, git : BOOLEAN, patchFile : BOOLEAN,
                    applied : BOOLEAN, drifted : BOOLEAN,
                    marker : {"absent", "garbage", AlreadyInCode, MovesRules,
                              DespiteGitError},
                    pc : {"main"}, exitCode : {0},
                    applied0 : BOOLEAN,
                    marker0 : {"absent", "garbage", AlreadyInCode, MovesRules,
                               DespiteGitError},
                    wrote : {0}, returned : {"none"}, reverse : {"none"},
                    thrown : {FALSE}]
    /\ agents.applied0 = agents.applied /\ agents.marker0 = agents.marker
    /\ ToolIdle
    /\ legacy = NoLegacy
    /\ sh = NoShell
    /\ setup = NoSetup
    /\ footer = NoFooter

\* main up to the commands: .git and the patch file are looked for, then the
\* command is chosen; help prints and returns.
AgentsMain ==
    /\ agents.pc = "main"
    /\ agents' =
         IF ~agents.git \/ ~agents.patchFile
            \/ agents.command \notin {"apply", "revert", "status", "help"}
         THEN [agents EXCEPT !.pc = "exit", !.exitCode = 1]
         ELSE IF agents.command = "help" THEN settled(agents)
         ELSE IF agents.command = "apply" /\ agents.pull
              THEN [agents EXCEPT !.pc = "pull"]
              ELSE [agents EXCEPT !.pc = agents.command]
    /\ UNCHANGED <<tool, legacy, sh, setup, footer>>

\* pullSSTRemote: nothing is pulled, or the pull brings upstream changes,
\* after which the code may have drifted; every failure is caught.
AgentsPull ==
    /\ agents.pc = "pull"
    /\ \E drift \in BOOLEAN :
        agents' = [agents EXCEPT !.pc = "apply", !.drifted = @ \/ drift]
    /\ UNCHANGED <<tool, legacy, sh, setup, footer>>

\* case "apply": nothing to do when the changes are present, else applyPatch.
AgentsApply ==
    /\ agents.pc = "apply"
    /\ \E w1 \in BOOLEAN, w2 \in BOOLEAN :
        agents' = IF isPatchApplied(agents) THEN settled(agents)
                  ELSE settled(applyPatch(agents, w1, w2))
    /\ UNCHANGED <<tool, legacy, sh, setup, footer>>

\* case "revert": nothing to do when the changes are absent, else revertPatch.
AgentsRevert ==
    /\ agents.pc = "revert"
    /\ agents' = IF ~isPatchApplied(agents) THEN settled(agents)
                 ELSE settled(revertPatch(agents))
    /\ UNCHANGED <<tool, legacy, sh, setup, footer>>

\* case "status": the marker is parsed as JSON when the changes are present
\* and the file exists; another file of that name makes the parse throw.
AgentsStatus ==
    /\ agents.pc = "status"
    /\ agents' = settled([agents EXCEPT !.thrown =
                              isPatchApplied(agents) /\ agents.marker = "garbage"])
    /\ UNCHANGED <<tool, legacy, sh, setup, footer>>

NextAgents ==
    \/ AgentsMain
    \/ AgentsPull
    \/ AgentsApply
    \/ AgentsRevert
    \/ AgentsStatus

SpecAgents == InitAgents /\ [][NextAgents]_vars

\* ------------------------------------- apply-commit-hash-footer-patch.ts
\* String.match: a file, app.go, status.go or main.go under packages/tui, is
\* what the patterns of the script find in it and the text the script has
\* put into it.
match(text, pattern) == pattern \in text.has

\* String.replace: the text is inserted at the first match.  The replacement
\* of the logo function does not hold the line the pattern ends with; every
\* other replacement holds what its pattern matched.
replace(text, pattern, inserted) ==
    IF ~match(text, pattern) THEN text
    ELSE [has |-> IF pattern = "logoFunctionPattern" THEN text.has \ {pattern}
                  ELSE text.has,
          added |-> Append(text.added, inserted)]

\* Variant: nothing reaches the disk.
writeFileSync_Discarded(disk, path, text) == disk

\* writeFileSync: the file on disk is the text.
writeFileSync(disk, path, text) == [disk EXCEPT ![path] = text]

\* console.error and process.exit(1) for the pattern that was not found.
FooterExit(pattern) == [footer EXCEPT !.pc = "exit", !.exitCode = 1, !.missing = pattern]

\* The script is run on a repository whose three files hold any of the
\* patterns it looks for.
InitFooter ==
    /\ \E app \in SUBSET {"appStructPattern", "newFuncPattern", "versionAssignPattern"},
          status \in SUBSET {"logoFunctionPattern"},
          main \in SUBSET {"versionDeclPattern", "appNewPattern"} :
        LET files == ("app.go" :> [has |-> app, added |-> <<>>])
                     @@ ("status.go" :> [has |-> status, added |-> <<>>])
                     @@ ("main.go" :> [has |-> main, added |-> <<>>])
        IN  footer = [disk |-> files, appGo |-> <<>>, pc |-> "app.go", exitCode |-> 0,
                      disk0 |-> files, missing |-> ""]
    /\ ToolIdle
    /\ legacy = NoLegacy
    /\ sh = NoShell
    /\ setup = NoSetup
    /\ agents = NoAgents

\* Step 1: app.go is read, the CommitHash field is added after the Version
\* field and the file is written.
FooterAppGo ==
    /\ footer.pc = "app.go"
    /\ LET appGo == footer.disk["app.go"]
           edited == replace(appGo, "appStructPattern", "CommitHash string")
       IN  footer' =
             IF ~match(appGo, "appStructPattern") THEN FooterExit("appStructPattern")
             ELSE [footer EXCEPT !.appGo = edited,
                                 !.disk = writeFileSync(@, "app.go", edited),
                                 !.pc = "status.go"]
    /\ UNCHANGED <<tool, legacy, sh, setup, agents>>

\* Step 2: status.go is read, the logo function is rewritten and the file is
\* written.
FooterStatusGo ==
    /\ footer.pc = "status.go"
    /\ LET statusGo == footer.disk["status.go"]
       IN  footer' =
             IF ~match(statusGo, "logoFunctionPattern") THEN FooterExit("logoFunctionPattern")
             ELSE [footer EXCEPT
                      !.disk = writeFileSync(@, "status.go",
                                  replace(statusGo, "logoFunctionPattern", "versionText")),
                      !.pc = "main.go"]
    /\ UNCHANGED <<tool, legacy, sh, setup, agents>>

\* Step 3: main.go is read, the CommitHash variable is declared, the app.New
\* call is given the commit hash, and the file is written after both.
FooterMainGo ==
    /\ footer.pc = "main.go"
    /\ LET mainGo == footer.disk["main.go"]
           declared == replace(mainGo, "versionDeclPattern", "var CommitHash")
           passed == replace(declared, "appNewPattern", "commitHash,")
       IN  footer' =
             IF ~match(mainGo, "versionDeclPattern") THEN FooterExit("versionDeclPattern")
             ELSE IF ~match(declared, "appNewPattern") THEN FooterExit("appNewPattern")
             ELSE [footer EXCEPT !.disk = writeFileSync(@, "main.go", passed),
                                 !.pc = "app.New"]
    /\ UNCHANGED <<tool, legacy, sh, setup, agents>>

\* Step 4: the text of app.go that step 1 left in memory gets the parameter
\* of New and the assignment of CommitHash, and the file is written after
\* both; the script then ends.
FooterAppNew ==
    /\ footer.pc = "app.New"
    /\ LET signed == replace(footer.appGo, "newFuncPattern", "commitHash string,")
           assigned == replace(signed, "versionAssignPattern", "CommitHash: commitHash,")
       IN  footer' =
             IF ~match(footer.appGo, "newFuncPattern") THEN FooterExit("newFuncPattern")
             ELSE IF ~match(signed, "versionAssignPattern")
                  THEN FooterExit("versionAssignPattern")
             ELSE [footer EXCEPT !.appGo = assigned,
                                 !.disk = writeFileSync(@, "app.go", assigned),
                                 !.pc = "exit"]
    /\ UNCHANGED <<tool, legacy, sh, setup, agents>>

NextFooter ==
    \/ FooterAppGo
    \/ FooterStatusGo
    \/ FooterMainGo
    \/ FooterAppNew

SpecFooter == InitFooter /\ [][NextFooter]_vars

\* ================================================================= properties
\* The registry as a graph, read from the document on disk.
Declared(id) == \E i \in 1..Len(configDoc.patches) : configDoc.patches[i].id = id

DepsOf(id) ==
    UNION {Range(configDoc.patches[i].dependencies) :
              i \in {j \in 1..Len(configDoc.patches) : configDoc.patches[j].id = id}}

RECURSIVE ReachableFrom(_)
\* The ids reachable from S along dependency edges, S included.
ReachableFrom(S) ==
    LET N == S \cup UNION {DepsOf(i) : i \in S}
    IN  IF N = S THEN S ELSE ReachableFrom(N)

\* id depends on itself through one edge or more.
OnCycle(id) == Declared(id) /\ id \in ReachableFrom(DepsOf(id))

\* The ids the apply command selects as roots.
Requested ==
    {configDoc.patches[i].id : i \in
        {j \in 1..Len(configDoc.patches) :
            /\ (args.category = NoCategory \/ configDoc.patches[j].category = args.category)
            /\ (args.all \/ configDoc.patches[j].enabled)}}

CycleReachable == \E i \in ReachableFrom(Requested) : OnCycle(i)
UndeclaredReachable == \E i \in ReachableFrom(Requested) : ~Declared(i)
RegistryAcyclic == \A i \in Ids : ~OnCycle(i)
RegistryClosed == \A i \in Ids : \A d \in DepsOf(i) : Declared(d)

\* The invocation is past the resolution step of applyPatches.
PastResolution ==
    /\ args.command = "apply"
    /\ \/ pc \in {"applyPatch", "dry-run", "apply", "catch"}
       \/ pc = "exit" /\ err.msg \in {CircularDependency, PatchNotFound,
                                        "patch(es) failed to apply", ""}

PatchOf(id) == configDoc.patches[find(configDoc.patches, id)]

\* C1: for an acyclic registry whose dependencies are all declared, the apply
\* order puts every dependency before its dependents, holds no id twice and
\* holds exactly the requested patches and their transitive dependencies,
\* disabled or out-of-category ones included.
C1_OrderIsTopologicalClosure ==
    (PastResolution /\ RegistryAcyclic /\ RegistryClosed) =>
        /\ err.msg \notin {CircularDependency, PatchNotFound}
        /\ \A k \in 1..Len(applyOrder) : \A d \in DepsOf(applyOrder[k]) :
              \E j \in 1..(k - 1) : applyOrder[j] = d
        /\ \A j, k \in 1..Len(applyOrder) : applyOrder[j] = applyOrder[k] => j = k
        /\ Range(applyOrder) = ReachableFrom(Requested)

\* An order of three patches holding a disabled dependency of another
\* category than the one asked for.
C1_Witness ==
    /\ PastResolution /\ RegistryAcyclic /\ RegistryClosed
    /\ Len(applyOrder) = 3
    /\ args.category # NoCategory /\ ~args.all
    /\ \E k \in 1..Len(applyOrder) :
          /\ applyOrder[k] \notin Requested
          /\ ~PatchOf(applyOrder[k]).enabled
          /\ PatchOf(applyOrder[k]).category # args.category
    /\ \E k \in 1..Len(applyOrder) : Len(PatchOf(applyOrder[k]).dependencies) = 2

\* C2 as stated: a cycle reachable from a requested patch ends resolution with
\* the fatal cycle error naming an id on a cycle, and no order is used.
C2_CycleErrorNamesParticipant ==
    (PastResolution /\ CycleReachable) =>
        /\ pc = "exit" /\ exitCode = 1 /\ calls = <<>>
        /\ err.msg = CircularDependency
        /\ OnCycle(err.id)

\* C2 amended: a reachable cycle ends resolution with a fatal error and no
\* order is used; the error is the cycle error naming an id on a cycle whenever
\* every id reachable from the requested set is declared, and otherwise either
\* that or the not-found error naming a reachable undeclared id.
C2_CycleIsFatal ==
    (PastResolution /\ CycleReachable) =>
        /\ pc = "exit" /\ exitCode = 1 /\ calls = <<>> /\ steps = <<>>
        /\ \/ err.msg = CircularDependency /\ OnCycle(err.id)
           \/ /\ err.msg = PatchNotFound
              /\ ~Declared(err.id) /\ err.id \in ReachableFrom(Requested)
        /\ ~UndeclaredReachable => err.msg = CircularDependency

\* The cycle error of a cycle of three patches, met after an earlier root was
\* resolved.
C2_Witness ==
    /\ pc = "exit" /\ err.msg = CircularDependency
    /\ ~UndeclaredReachable
    /\ applyOrder # <<>>
    /\ OnCycle(err.id)

\* C3 as stated: an undeclared dependency id reachable from a requested patch
\* ends resolution with the fatal not-found error naming that id.
C3_UndeclaredGivesNotFound ==
    (PastResolution /\ UndeclaredReachable) =>
        /\ pc = "exit" /\ exitCode = 1
        /\ err.msg = PatchNotFound
        /\ ~Declared(err.id) /\ err.id \in ReachableFrom(Requested)

\* C3 amended: a reachable undeclared dependency id ends resolution with a
\* fatal error; it is the not-found error (another message than the cycle
\* error) naming a reachable undeclared id whenever no cycle is reachable from
\* the requested set, and otherwise either that or the cycle error.
C3_UndeclaredIsFatal ==
    (PastResolution /\ UndeclaredReachable) =>
        /\ pc = "exit" /\ exitCode = 1 /\ calls = <<>> /\ steps = <<>>
        /\ \/ /\ err.msg = PatchNotFound /\ err.msg # CircularDependency
              /\ ~Declared(err.id) /\ err.id \in ReachableFrom(Requested)
           \/ err.msg = CircularDependency /\ CycleReachable
        /\ ~CycleReachable => err.msg = PatchNotFound

\* The not-found error in a registry without any cycle, the undeclared id
\* being a dependency of a dependency.
C3_Witness ==
    /\ pc = "exit" /\ err.msg = PatchNotFound
    /\ RegistryAcyclic
    /\ err.id \notin UNION {DepsOf(i) : i \in Requested}
    /\ err.id = Undeclared

\* C4: when resolution meets a cycle or an undeclared id, the invocation ends
\* in failure with no applyPatch call started and the tree as it found it,
\* also when earlier requested patches had been resolved.
C4_FatalResolutionBeforeAnyApply ==
    (CycleReachable \/ UndeclaredReachable) =>
        /\ pc \in {"main", "applyPatches", "exit"}
        /\ calls = <<>> /\ steps = <<>> /\ results = <<>>
        /\ tree = tree0
        /\ PastResolution => (pc = "exit" /\ exitCode = 1)

\* The failure exit with earlier roots already in the order.
C4_Witness ==
    /\ pc = "exit" /\ exitCode = 1
    /\ err.msg \in {CircularDependency, PatchNotFound}
    /\ Len(applyOrder) >= 2
    /\ calls = <<>> /\ tree = tree0

\* The calls of applyPatch this invocation completed.
Calls == {calls[k] : k \in 1..Len(calls)}
Satisfied(id, t) == checkPatchApplied(PatchOf(id), t, env.opencodeDir)
InFlight == pc \in {"dry-run", "apply", "catch"}
FailedToApply(id) == [msg |-> "Failed to apply patch", id |-> id]

\* C5: a call of applyPatch whose dry run and real application succeeded is
\* failed when the patch's verification entries are unsatisfied afterwards.
C5_UnverifiedApplicationFails ==
    \A c \in Calls :
        ("apply-ok" \in Range(c.steps) /\ ~Satisfied(c.id, c.after)) => ~c.result

\* C6: a call of applyPatch that follows a successful call on the same patch,
\* with no other call in between, is already satisfied: it returns success
\* after the verification alone and leaves the tree as the first call left it.
C6_SecondCallAlreadySatisfied ==
    (calls # <<>> /\ prev.id = calls[1].id /\ prev.result) =>
        /\ calls[1].result
        /\ calls[1].steps = <<"verify">>
        /\ calls[1].after = prev.after

\* C7: a call of applyPatch that finds the verification satisfied returns
\* success having run neither the dry run nor the application, the tree
\* unchanged; the dry run is reached only when the verification failed.
C7_SatisfiedAtStartTouchesNothing ==
    /\ \A c \in Calls :
          Satisfied(c.id, c.before) =>
              /\ c.result /\ c.diag = NoError
              /\ c.steps = <<"verify">>
              /\ c.after = c.before
    /\ InFlight => ~Satisfied(applyOrder[idx], before)

\* An already satisfied patch whose artifact is missing: the dry run would
\* have failed.
C7_Witness ==
    \E c \in Calls :
        /\ Satisfied(c.id, c.before) /\ c.result
        /\ ~artifacts[PatchOf(c.id).file].exists
        /\ tree = c.before

\* C8: after a failed dry run applyPatch runs no application and exactly one
\* more verification, whose answer is the result; a failure is reported with
\* the patch id.
C8_FailedDryRunReverifiesOnce ==
    /\ \A c \in Calls :
          "check-failed" \in Range(c.steps) =>
              /\ c.steps = <<"verify", "check-failed", "re-verify">>
              /\ c.result = Satisfied(c.id, c.after)
              /\ c.diag = IF c.result THEN NoError ELSE FailedToApply(c.id)
              /\ c.after # c.before => edits > 0
    /\ pc = "apply" => "check-failed" \notin Range(steps)

\* One invocation in which a failed dry run ended in failure for one patch
\* and in success for another, whose content had appeared meanwhile.
C8_Witness ==
    /\ \E c \in Calls : "check-failed" \in Range(c.steps) /\ c.result
    /\ \E c \in Calls : "check-failed" \in Range(c.steps) /\ ~c.result

\* C9: the tool changes the tree only in the application step of applyPatch,
\* reached only after that patch's dry run succeeded; no id is attempted
\* twice in one invocation, so no application is repeated and no failed patch
\* retried.
C9_TreeWrittenOnlyByApplyOncePerPatch ==
    /\ [](/\ pc = "apply" => steps = <<"verify", "check-ok">>
          /\ \A c \in Calls :
                "apply-ok" \in Range(c.steps) => c.steps = <<"verify", "check-ok", "apply-ok">>
          /\ \A j, k \in 1..Len(calls) : calls[j].id = calls[k].id => j = k
          /\ (pc = "applyPatch" /\ idx <= Len(applyOrder)) \/ InFlight =>
                \A c \in Calls : c.id # applyOrder[idx])
    /\ [][tree' # tree =>
            \/ edits' = edits + 1
            \/ /\ pc = "apply" /\ steps = <<"verify", "check-ok">>
               /\ Len(calls') = Len(calls) + 1
               /\ calls'[Len(calls')].id = applyOrder[idx]
               /\ calls'[Len(calls')].steps = <<"verify", "check-ok", "apply-ok">>]_vars

\* An invocation that applied two patches and failed a third one.
C9_Witness ==
    /\ pc = "exit"
    /\ Cardinality({c \in Calls : "apply-ok" \in Range(c.steps)}) = 2
    /\ \E c \in Calls : ~c.result /\ "apply-failed" \in Range(c.steps)
    /\ tree # tree0 /\ edits = 0

\* C10: the apply loop calls applyPatch once for every id of the apply order,
\* in order, whatever the results before; the failure exit comes only after
\* the last id was attempted.
C10_EveryPatchAttemptedOnce ==
    /\ Len(calls) <= Len(applyOrder)
    /\ \A k \in 1..Len(calls) : calls[k].id = applyOrder[k]
    /\ Len(results) = Len(calls)
    /\ (pc = "applyPatch" \/ InFlight) => Len(calls) = idx - 1
    /\ (pc = "exit" /\ err.msg \in {"patch(es) failed to apply", ""}) =>
          Len(calls) = Len(applyOrder)

\* The failure exit of an invocation whose first patch failed and whose later
\* patches, which depend on it, were attempted all the same.
C10_Witness ==
    /\ pc = "exit" /\ exitCode = 1 /\ err.msg = "patch(es) failed to apply"
    /\ Len(calls) = 3
    /\ ~calls[1].result
    /\ calls[1].id \in DepsOf(calls[2].id) \cap DepsOf(calls[3].id)
    /\ "apply-ok" \in Range(calls[3].steps)

\* C11: an apply invocation that went through its apply loop exits with a
\* non-zero status when at least one patch of the apply order failed and with
\* status zero when every patch of the order was applied or found satisfied.
C11_ExitStatusTellsFailure ==
    (pc = "exit" /\ args.command = "apply" /\ err.msg \in {PatchesFailed, ""}) =>
        /\ \A k \in 1..Len(applyOrder) : k <= Len(calls) /\ calls[k].id = applyOrder[k]
        /\ (\E c \in Calls : ~c.result) => (exitCode # 0 /\ err.msg = PatchesFailed)
        /\ (\A c \in Calls : c.result) => (exitCode = 0 /\ err.msg = "")

\* The failure exit of an invocation whose only failed patch was the first
\* of three.
C11_Witness ==
    /\ pc = "exit" /\ args.command = "apply" /\ exitCode = 1
    /\ Len(calls) = 3
    /\ ~calls[1].result /\ calls[2].result /\ calls[3].result

\* The steps of a call of applyPatch that has returned.
Complete(ran) ==
    \/ ran = <<"verify">>
    \/ ran[Len(ran)] \in {"apply-ok", "re-verify"}

\* C12: applyPatches has at most one patch in flight: while a call of
\* applyPatch is pending, every id before it in the order has a call that
\* returned, its dependencies among them, and no later id has started; a step
\* of the call in flight leaves the loop where it is, and the loop moves on
\* by one id exactly when a call returns.
C12_OnePatchAtATime ==
    /\ [](/\ InFlight =>
              /\ idx <= Len(applyOrder) /\ Len(calls) = idx - 1
              /\ \A k \in 1..Len(calls) :
                    calls[k].id = applyOrder[k] /\ Complete(calls[k].steps)
              /\ DepsOf(applyOrder[idx]) \subseteq {calls[k].id : k \in 1..Len(calls)}
              /\ steps # <<>> /\ steps[1] = "verify"
          /\ ~InFlight => steps = <<>>)
    /\ [][/\ (InFlight /\ Len(steps') > Len(steps)) =>
                (idx' = idx /\ calls' = calls /\ SubSeq(steps', 1, Len(steps)) = steps)
          /\ (pc = "applyPatch" /\ steps' # <<>>) =>
                (steps' = <<"verify">> /\ idx' = idx /\ Len(calls) = idx - 1)
          /\ Len(calls') > Len(calls) =>
                /\ Len(calls') = Len(calls) + 1 /\ idx' = idx + 1 /\ steps' = <<>>
                /\ calls'[Len(calls')].id = applyOrder[idx]
                /\ Complete(calls'[Len(calls')].steps)]_vars

\* The application step of a patch in flight whose dependency was applied
\* by the first call and whose other predecessor failed after its second
\* verification.
C12_Witness ==
    /\ pc = "apply" /\ idx = 3 /\ Len(calls) = 2
    /\ calls[1].id \in DepsOf(applyOrder[idx])
    /\ "apply-ok" \in Range(calls[1].steps)
    /\ "re-verify" \in Range(calls[2].steps)

\* C13: a call of applyPatch that finds the artifact of its patch missing
\* ends the apply operation: it is the last call of the invocation, no call
\* follows it, and the invocation has not changed the tree.
C13_MissingArtifactAborts ==
    \A k \in 1..Len(calls) :
        calls[k].diag.msg = "Patch file not found" =>
            /\ k = Len(calls)
            /\ ~InFlight
            /\ edits = 0 => tree = tree0

\* The ids applyPatches resolves as roots, once main has loaded the registry.
Roots ==
    {patchesToApply(config, args)[k].id : k \in 1..Len(patchesToApply(config, args))}

Loaded == args.command = "apply" /\ config # NoConfig

IdsWhere(P(_)) ==
    {configDoc.patches[i].id : i \in {j \in 1..Len(configDoc.patches) : P(configDoc.patches[j])}}

\* The union the claim describes.
UnionRequested ==
    (IF args.patch # NoPatch THEN {args.patch} ELSE {})
    \cup (IF args.category # NoCategory
          THEN IdsWhere(LAMBDA p : p.category = args.category) ELSE {})
    \cup (IF args.patch = NoPatch /\ args.category = NoCategory /\ ~args.all
          THEN IdsWhere(LAMBDA p : p.enabled) ELSE {})
    \cup (IF args.all THEN IdsWhere(LAMBDA p : TRUE) ELSE {})

\* C14 as stated: the root ids of apply are the union of the --patch
\* selection, the patches of the --category, the enabled ids when neither a
\* filter nor --all is given, and every id when --all is given.
C14_RequestedIsUnion ==
    Loaded => Roots = UnionRequested

\* C14 amended: the root ids of apply are the patches that pass both
\* filters, of the --category when one is given and enabled unless --all is
\* given; --patch plays no part; with no such patch nothing is resolved and
\* the invocation ends with status zero, otherwise every root is in the order
\* a successful resolution gives.
C14_RequestedIsFilter ==
    Loaded =>
        /\ Roots = IdsWhere(LAMBDA p :
                        /\ args.category # NoCategory => p.category = args.category
                        /\ ~args.all => p.enabled)
        /\ pc # "applyPatches" =>
              /\ Roots = {} <=> (pc = "exit" /\ err.msg = "No patches to apply")
              /\ Roots = {} => (exitCode = 0 /\ applyOrder = <<>>)
              /\ err.msg \notin {CircularDependency, PatchNotFound, "No patches to apply"}
                    => Roots \subseteq Range(applyOrder)

\* An apply run with --patch naming a disabled patch that no enabled patch
\* needs: the order holds the enabled patches, not the named one.
C14_Witness ==
    /\ Loaded /\ PastResolution
    /\ args.patch = "C" /\ ~PatchOf("C").enabled
    /\ Len(applyOrder) = 2 /\ "C" \notin Range(applyOrder)

Enabled(id) == Declared(id) /\ PatchOf(id).enabled

\* The registry of the README scenario: B and C depend on A, C is disabled.
Scenario ==
    configDoc.patches = ConfigDocOf(SharedPrerequisite, {"A", "B"}).patches

Resolved ==
    PastResolution /\ err.msg \notin {CircularDependency, PatchNotFound}

\* C15: in an apply run without --all every disabled patch of the apply
\* order is a dependency, direct or not, of an enabled patch that was
\* requested, and no root; without a category either, a successful resolution
\* gives exactly the enabled patches and their transitive dependencies, and
\* on the registry of the scenario the order A, B.
C15_DisabledOnlyAsDependency ==
    (PastResolution /\ ~args.all) =>
        /\ \A id \in Range(applyOrder) :
              ~Enabled(id) =>
                  /\ id \notin Roots
                  /\ \E r \in Roots : Enabled(r) /\ id \in ReachableFrom(DepsOf(r))
        /\ \A r \in Roots : Enabled(r)
        /\ (Resolved /\ args.category = NoCategory) =>
              /\ Range(applyOrder) = ReachableFrom({id \in Ids : Enabled(id)})
              /\ Scenario => applyOrder = <<"A", "B">>

\* An order of three patches, two of them disabled, one of these a
\* dependency of the other only.
C15_Witness ==
    /\ Resolved /\ ~args.all /\ args.category = NoCategory
    /\ Len(applyOrder) = 3
    /\ Cardinality({id \in Range(applyOrder) : ~Enabled(id)}) = 2
    /\ \E id \in Range(applyOrder) :
          ~Enabled(id) /\ id \notin UNION {DepsOf(r) : r \in Roots}

\* C16: an apply run with --all and without --category resolves every patch
\* of the registry, disabled or not; when the registry has no cycle and no
\* undeclared dependency the order holds every patch exactly once, each after
\* its dependencies, and on the registry of the scenario it is A, B, C.
C16_AllIgnoresEnabled ==
    (PastResolution /\ args.all /\ args.category = NoCategory) =>
        /\ Roots = Ids
        /\ (RegistryAcyclic /\ RegistryClosed) =>
              /\ Resolved
              /\ Len(applyOrder) = Cardinality(Ids) /\ Range(applyOrder) = Ids
              /\ \A k \in 1..Len(applyOrder) : \A d \in DepsOf(applyOrder[k]) :
                    \E j \in 1..(k - 1) : applyOrder[j] = d
        /\ Scenario => applyOrder = <<"A", "B", "C">>

\* The order of the scenario under --all, C disabled.
C16_Witness ==
    /\ PastResolution /\ args.all /\ args.category = NoCategory
    /\ Scenario /\ ~Enabled("C")
    /\ applyOrder = <<"A", "B", "C">>

\* The registry as the invocation found it on disk.
DeclaredAtStart(id) == find(doc0.patches, id) # 0
EnabledAtStart(id) == DeclaredAtStart(id) /\ doc0.patches[find(doc0.patches, id)].enabled
DependentsAtStart(id) ==
    {doc0.patches[i].id : i \in {j \in 1..Len(doc0.patches) :
        doc0.patches[j].enabled /\ id \in Range(doc0.patches[j].dependencies)}}

\* enable or disable has ended, --patch given.
Managed(command) ==
    pc = "exit" /\ args.command = command /\ args.patch # NoPatch

\* C17: disable of an enabled patch that an enabled patch lists among its
\* dependencies ends with a failure naming the patch and listing the enabled
\* patches that depend on it; the patch stays enabled and the configuration
\* document is not written.
C17_DisableRefusedForDependents ==
    (Managed("disable") /\ EnabledAtStart(args.patch)
        /\ DependentsAtStart(args.patch) # {}) =>
        /\ exitCode = 1
        /\ err = [msg |-> CannotDisable, id |-> args.patch,
                   ids |-> DependentsAtStart(args.patch)]
        /\ writes = 0 /\ configDoc = doc0
        /\ config = YAML_parse(doc0)
        /\ Enabled(args.patch)

\* The refusal to disable a patch two enabled patches depend on.
C17_Witness ==
    /\ Managed("disable") /\ err.msg = CannotDisable
    /\ Cardinality(err.ids) = 2 /\ args.patch \notin err.ids
    /\ Enabled(args.patch)

\* C18: enable of an enabled patch and disable of a disabled patch end with
\* status zero and a message: the Config object and the configuration
\* document are as they were found and saveConfig is not called, for disable
\* also when enabled patches depend on the patch.
C18_AlreadyInStateIsNoOp ==
    /\ (Managed("enable") /\ EnabledAtStart(args.patch)) =>
          /\ exitCode = 0 /\ err.msg = AlreadyEnabled /\ err.id = args.patch
          /\ writes = 0 /\ configDoc = doc0 /\ config = YAML_parse(doc0)
    /\ (Managed("disable") /\ DeclaredAtStart(args.patch)
           /\ ~EnabledAtStart(args.patch)) =>
          /\ exitCode = 0 /\ err.msg = AlreadyDisabled /\ err.id = args.patch
          /\ writes = 0 /\ configDoc = doc0 /\ config = YAML_parse(doc0)

\* disable of a disabled patch an enabled patch depends on.
C18_Witness ==
    /\ Managed("disable") /\ err.msg = AlreadyDisabled /\ exitCode = 0
    /\ DependentsAtStart(args.patch) # {}
    /\ writes = 0

\* C19: enable and disable of an id the registry does not declare end with a
\* failure without a call of saveConfig: the configuration document is as it
\* was found.
C19_UnknownIdIsFatal ==
    (pc = "exit" /\ args.command \in {"enable", "disable"} /\ args.patch # NoPatch
        /\ ~DeclaredAtStart(args.patch)) =>
        /\ exitCode # 0
        /\ err.msg = PatchNotFound /\ err.id = args.patch
        /\ writes = 0 /\ configDoc = doc0

\* enable of the undeclared id on a registry in which a patch lists it as a
\* dependency.
C19_Witness ==
    /\ Managed("enable") /\ args.patch = Undeclared
    /\ err.msg = PatchNotFound /\ exitCode = 1
    /\ \E id \in Ids : Undeclared \in DepsOf(id)

\* A successful enable or disable has ended.
Changed ==
    /\ pc = "exit" /\ args.command \in {"enable", "disable"}
    /\ err.msg \in {EnabledPatch, DisabledPatch}

\* C20: after a successful enable or disable the configuration document was
\* written once and holds the registry that was loaded with the enabled flag
\* of the one patch set: the patches are the same, in the same order, every
\* other field and every other patch's flag as loaded, the categories too.
C20_PointMutation ==
    Changed =>
        /\ exitCode = 0 /\ writes = 1
        /\ Len(configDoc.patches) = Len(doc0.patches)
        /\ \A i \in 1..Len(doc0.patches) :
              configDoc.patches[i] =
                  IF doc0.patches[i].id = args.patch
                  THEN [doc0.patches[i] EXCEPT !.enabled = (args.command = "enable")]
                  ELSE doc0.patches[i]
        /\ EnabledAtStart(args.patch) # Enabled(args.patch)
        /\ configDoc.categories = doc0.categories
        /\ DOMAIN configDoc.categories = DOMAIN Categories

\* enable of a patch whose dependency is disabled and stays so, while a
\* disabled patch depends on it.
C20_Witness ==
    /\ Changed /\ args.command = "enable"
    /\ \E d \in DepsOf(args.patch) : Declared(d) /\ ~Enabled(d) /\ d # args.patch
    /\ \E id \in Ids : args.patch \in DepsOf(id) /\ ~Enabled(id)

\* C21: an invocation of status or list runs no dry run and no application,
\* calls neither applyPatch nor saveConfig and changes no enabled flag: the
\* configuration document and the tree stay as the invocation found them.
C21_StatusAndListReadOnly ==
    args.command \in {"status", "list"} =>
        /\ pc \in {"main", "showStatus", "listPatches", "exit"}
        /\ tree = tree0 /\ edits = 0
        /\ configDoc = doc0 /\ writes = 0
        /\ config \in {NoConfig, YAML_parse(doc0)}
        /\ calls = <<>> /\ steps = <<>> /\ applyOrder = <<>>

\* status has printed an enabled patch that is not applied and whose
\* artifact would apply, next to an applied one.
C21_Witness ==
    /\ pc = "exit" /\ args.command = "status" /\ exitCode = 0
    /\ \E k \in 1..Len(out) :
          /\ out[k].enabled /\ ~out[k].applied
          /\ gitApplyExit0(tree, artifacts[PatchOf(out[k].id).file])
    /\ \E k \in 1..Len(out) : out[k].applied
    /\ tree = tree0

\* main has passed its checks of .git, PATCHES_DIR and CONFIG_FILE.
PastChecks == pc # "main" /\ env.git /\ env.patchesDir /\ env.configFile

\* C22: an invocation reads the configuration document once, before the
\* command is dispatched (and not at all when main ends on a missing .git,
\* patches directory or document), and writes it at most once; apply never
\* writes it and changes no enabled flag; a write comes from an enable or
\* disable that changed the flag of its patch.
C22_ReadOnceWrittenAtMostOnce ==
    /\ reads = (IF PastChecks THEN 1 ELSE 0)
    /\ pc \notin {"main", "exit"} => reads = 1
    /\ writes \in {0, 1}
    /\ writes = 0 => configDoc = doc0
    /\ writes = 1 =>
          /\ reads = 1 /\ pc = "exit" /\ exitCode = 0
          /\ args.command \in {"enable", "disable"}
          /\ EnabledAtStart(args.patch) # Enabled(args.patch)
          /\ Enabled(args.patch) = (args.command = "enable")
    /\ args.command \notin {"enable", "disable"} =>
          (writes = 0 /\ config \in {NoConfig, YAML_parse(doc0)})

\* The end of a disable that wrote the document.
C22_Witness ==
    /\ pc = "exit" /\ args.command = "disable"
    /\ reads = 1 /\ writes = 1
    /\ configDoc # doc0

\* One (file, patterns) entry read against the tree the invocation found: the
\* file exists, can be read and holds every pattern of the entry.
EntrySatisfied(entry) ==
    /\ env.opencodeDir
    /\ tree0[entry.path].exists
    /\ tree0[entry.path].readable
    /\ Range(entry.patterns) \subseteq tree0[entry.path].lines

EverySatisfied(files) == \A i \in 1..Len(files) : EntrySatisfied(files[i])

\* A status invocation that printed its lines.
StatusShown == pc = "exit" /\ args.command = "status" /\ out # <<>>

\* C23: checkPatchApplied of a patch of check type grep is true iff every
\* (file, patterns) entry is satisfied, the file existing and holding every
\* pattern; a missing or unreadable file gives false and no error.
C23_AppliedIffEveryEntrySatisfied ==
    StatusShown =>
        /\ exitCode = 0 /\ err = NoError
        /\ \A k \in 1..Len(out) :
            LET check == PatchOf(out[k].id).checkApplied IN
            check.type = "grep" => (out[k].applied = EverySatisfied(check.files))

\* The same for the patches whose entries all name at least one pattern, and
\* false for every patch of another check type.
VerifierWithPatterns ==
    StatusShown =>
        /\ exitCode = 0 /\ err = NoError
        /\ \A k \in 1..Len(out) :
            LET check == PatchOf(out[k].id).checkApplied IN
            /\ check.type # "grep" => ~out[k].applied
            /\ (check.type = "grep" /\ \A i \in 1..Len(check.files) :
                                            check.files[i].patterns # <<>>)
                => (out[k].applied = EverySatisfied(check.files))

\* A patch whose only entry names a missing file and no pattern is shown as
\* applied.
MissingFileSatisfied ==
    /\ StatusShown
    /\ \E k \in 1..Len(out) :
        LET check == PatchOf(out[k].id).checkApplied IN
        /\ check.type = "grep" /\ Len(check.files) = 1
        /\ check.files[1].patterns = <<>>
        /\ ~tree0[check.files[1].path].exists
        /\ out[k].applied

\* The requested ids in registry order.
RequestedInOrder ==
    LET picked == SelectSeq(configDoc.patches, LAMBDA p : p.id \in Requested)
    IN  [k \in 1..Len(picked) |-> picked[k].id]

RECURSIVE PostOrder(_, _)
\* The depth-first post-order of the registry: the ids of `ids` are visited in
\* turn, an id already in `emitted` is passed over, any other is emitted after
\* the visit of its dependencies in declared order.
PostOrder(ids, emitted) ==
    IF ids = <<>> THEN emitted
    ELSE IF Head(ids) \in Range(emitted) THEN PostOrder(Tail(ids), emitted)
    ELSE PostOrder(Tail(ids),
                   Append(PostOrder(PatchOf(Head(ids)).dependencies, emitted), Head(ids)))

\* C24: the apply order of a successful resolution is the depth-first
\* post-order of the requested patches taken in registry order, the
\* dependencies of each in declared order; an id met again emits nothing, so a
\* shared prerequisite stands once, where it was met first.
C24_DepthFirstPostOrder ==
    Resolved =>
        /\ applyOrder = PostOrder(RequestedInOrder, <<>>)
        /\ \A j, k \in 1..Len(applyOrder) : applyOrder[j] = applyOrder[k] => j = k

\* A and B, both requested, share the prerequisite C, the last of the
\* registry: it is emitted once, before A, and B's encounter emits nothing.
C24_Witness ==
    /\ Resolved
    /\ {"A", "B"} \subseteq Requested
    /\ "C" \in Range(PatchOf("A").dependencies) \cap Range(PatchOf("B").dependencies)
    /\ applyOrder = <<"C", "A", "B">>

\* C25: when no patch is requested (none enabled, or none passing the
\* category filter) the apply command ends at once with status 0: nothing is
\* resolved, no applyPatch call is made, no verification, dry run or
\* application step is taken and the tree stays as found.
C25_EmptySelectionIsNoOp ==
    (args.command = "apply" /\ Requested = {}) =>
        /\ pc \in {"main", "applyPatches", "exit"}
        /\ exitCode = 0
        /\ err.msg \notin {CircularDependency, PatchNotFound, PatchesFailed}
        /\ applyOrder = <<>> /\ calls = <<>> /\ steps = <<>> /\ results = <<>>
        /\ tree = tree0 /\ configDoc = doc0

\* apply --category performance has ended while only A, a conversation patch
\* depending on an undeclared id, is enabled.
C25_Witness ==
    /\ pc = "exit" /\ args.command = "apply" /\ args.category = "performance"
    /\ IdsWhere(LAMBDA p : p.enabled) = {"A"}
    /\ Undeclared \in DepsOf("A")
    /\ Requested = {}
    /\ exitCode = 0

\* C26: the hard-coded driver applies its patches in the listed order: the
\* dry run and the application of commit-hash-footer do not start before the
\* applyPatch call of agents-md-enforcement has completed.
C26_ListedOrder ==
    legacy.call[2] \in {"dry-run", "apply", "catch"} => legacy.call[1] = "returned"

\* The change of commit-hash-footer is in the tree while the dry run of
\* agents-md-enforcement has not ended.
SecondAppliedFirst ==
    /\ legacy.call[1] = "dry-run"
    /\ legacy.call[2] = "returned"
    /\ \E k \in 1..Len(legacy.log) : legacy.log[k] = [patch |-> 2, step |-> "apply"]
    /\ legacy.target[2] = "applied"

\* s is the beginning of t.
IsPrefix(s, t) == Len(s) <= Len(t) /\ \A k \in 1..Len(s) : s[k] = t[k]

C28_InstallOnlyValidatedBuild ==
    /\ [](sh.fn = "opencode_upgrade" =>
            /\ "install" \in Range(sh.log) =>
                    (sh.log = <<"sync", "patch", "build", "install">> /\ sh.patchStatus = 0)
            /\ "install" \notin Range(sh.log) => sh.installed = sh.installed0
            /\ sh.installed \in {sh.installed0, "none", "good"})
    /\ [][sh.installed' # sh.installed =>
            (sh.pc = "install" /\ sh.binary = "good" /\ sh.fn = "opencode_upgrade")]_vars

\* opencode_upgrade has replaced an old installation with the binary it built.
C28_Witness ==
    /\ sh.fn = "opencode_upgrade" /\ sh.pc = "return" /\ sh.rc = 0
    /\ sh.installed0 = "old" /\ sh.installed = "good"

\* The release tags of a set of tags, and the one with the highest version.
ReleaseTags(tags) == {t \in tags : Len(chunks[t]) = 3 /\ suffix[t] = ""}
Weight(t) == chunks[t][1] * 10000 + chunks[t][2] * 100 + chunks[t][3]
SyncTarget(mode, tags) ==
    IF mode = "release" /\ ReleaseTags(tags) # {}
    THEN CHOOSE t \in ReleaseTags(tags) : \A u \in ReleaseTags(tags) : Weight(u) <= Weight(t)
    ELSE "sst/dev"

C30_SourceLineAtMostOnce ==
    /\ [](/\ setup.appended => (~setup.dir0 /\ setup.lines0 = 0 /\ setup.is_first_install)
          /\ setup.lines <= 1)
    /\ [][setup.pc # "exit" =>
            /\ setup.lines' # setup.lines =>
                    (~setup.dir0 /\ setup.lines = 0 /\ setup.pc = "configure"
                     /\ setup.lines' = 1)
            /\ setup.dir0 => (setup.lines' = setup.lines /\ setup.zshrc' = setup.zshrc)]_vars

\* A second first installation, after the tools directory was removed, has
\* ended and found the line of the first in place.
C30_Witness ==
    /\ setup.pc = "exit" /\ setup.rc = 0 /\ setup.run >= 2
    /\ setup.is_first_install /\ ~setup.dir0
    /\ setup.lines0 = 1 /\ setup.lines = 1
    /\ ~setup.appended

\* Every enabled patch of the document has its direct dependencies declared
\* and enabled.
DependenciesEnabled(doc) ==
    \A i \in 1..Len(doc.patches) :
        doc.patches[i].enabled =>
            \A d \in Range(doc.patches[i].dependencies) :
                \E j \in 1..Len(doc.patches) :
                    doc.patches[j].id = d /\ doc.patches[j].enabled

\* C31: when every enabled patch has its direct dependencies enabled before a
\* disable command, the same holds for the document the command leaves on
\* disk, whatever the id and the registry.
C31_DisableKeepsDependenciesEnabled ==
    (args.command = "disable" /\ DependenciesEnabled(doc0)) => DependenciesEnabled(configDoc)

\* A disable was written for a patch that other patches, all disabled, depend
\* on, in a registry with an enabled dependent elsewhere.
C31_Witness ==
    /\ pc = "exit" /\ args.command = "disable" /\ writes = 1
    /\ DependenciesEnabled(doc0) /\ DependenciesEnabled(configDoc)
    /\ \E i \in 1..Len(doc0.patches) :
            args.patch \in Range(doc0.patches[i].dependencies) /\ ~doc0.patches[i].enabled
    /\ \E i \in 1..Len(doc0.patches) :
            doc0.patches[i].enabled /\ doc0.patches[i].dependencies # <<>>

\* enable has no such check: the patch enabled has a disabled dependency.
EnableBreaksDependencies ==
    /\ pc = "exit" /\ args.command = "enable" /\ writes = 1
    /\ DependenciesEnabled(doc0) /\ ~DependenciesEnabled(configDoc)

\* applyPatches has run its filter and its resolution loop.
ResolutionEnded == args.command = "apply" /\ pc \notin {"main", "applyPatches"} /\ reads = 1

\* C32: the resolution of every registry, with cycles, self-dependencies and
\* undeclared ids or without, ends with an order or with the fatal exit, and
\* goes into no id twice in an invocation: into declared ids reachable from
\* the requested ones only, the ids of the order when there is one.
C32_ResolutionEndsExpandingOnce ==
    ResolutionEnded =>
        /\ \A j, k \in 1..Len(expanded) : expanded[j] = expanded[k] => j = k
        /\ \A k \in 1..Len(expanded) :
                Declared(expanded[k]) /\ expanded[k] \in ReachableFrom(Requested)
        /\ Len(expanded) <= Len(configDoc.patches)
        /\ \/ /\ pc = "exit" /\ exitCode = 1
              /\ err.msg \in {CircularDependency, PatchNotFound}
              /\ CycleReachable \/ UndeclaredReachable
           \/ /\ err.msg \notin {CircularDependency, PatchNotFound}
              /\ Range(applyOrder) = Range(expanded)
              /\ ~CycleReachable /\ ~UndeclaredReachable

\* The resolver went into three patches before it met one of them again and
\* ended the process, in a registry that also has a patch depending on
\* itself and one depending on an undeclared id.
C32_Witness ==
    /\ ResolutionEnded /\ pc = "exit"
    /\ err.msg = CircularDependency
    /\ Len(expanded) = 3
    /\ \E i \in Ids : i \in DepsOf(i)
    /\ \E i \in Ids : Undeclared \in DepsOf(i)

\* C33: applyPatch verifies before it looks for the artifact and for
\* OPENCODE_DIR: a satisfied patch is a success also without its artifact,
\* 'Patch file not found' is reported for unsatisfied patches only, and
\* before 'OpenCode directory not found'.
C33_VerificationBeforeExistenceChecks ==
    \A c \in Calls :
        LET missing == ~artifacts[PatchOf(c.id).file].exists IN
        /\ (Satisfied(c.id, c.before) /\ missing) => (c.result /\ c.diag = NoError)
        /\ c.diag.msg = "Patch file not found" =>
                (~Satisfied(c.id, c.before) /\ missing /\ ~c.result)
        /\ (~Satisfied(c.id, c.before) /\ missing) =>
                (c.diag.msg = "Patch file not found" /\ c.steps = <<"verify">>)
        /\ c.diag.msg = "OpenCode directory not found" =>
                (~Satisfied(c.id, c.before) /\ ~missing /\ ~env.opencodeDir)

\* One invocation, two patches without artifact: the satisfied one returned
\* true, the other was reported as 'Patch file not found'.
C33_Witness ==
    /\ \E c \in Calls :
          /\ Satisfied(c.id, c.before) /\ ~artifacts[PatchOf(c.id).file].exists
          /\ c.result
    /\ \E c \in Calls :
          /\ ~Satisfied(c.id, c.before) /\ ~artifacts[PatchOf(c.id).file].exists
          /\ c.diag.msg = "Patch file not found"

\* C34: a cycle or an undeclared dependency among patches that are neither
\* requested nor a dependency, direct or not, of a requested patch raises no
\* error: when the part of the registry reachable from the requested patches
\* has neither, the resolution gives the requested patches and their
\* dependencies and the apply loop runs.
C34_DefectsOutsideClosureIgnored ==
    (ResolutionEnded /\ Requested # {} /\ ~CycleReachable /\ ~UndeclaredReachable) =>
        /\ err.msg \notin {CircularDependency, PatchNotFound}
        /\ Range(applyOrder) = ReachableFrom(Requested)
        /\ Range(expanded) = ReachableFrom(Requested)
        /\ pc = "exit" =>
                /\ Len(calls) = Len(applyOrder)
                /\ exitCode = (IF \E c \in Calls : ~c.result THEN 1 ELSE 0)

\* apply has ended with status 0 on a registry in which a patch outside the
\* requested closure depends on itself and another on an undeclared id.
C34_Witness ==
    /\ ResolutionEnded /\ pc = "exit" /\ exitCode = 0
    /\ applyOrder # <<>>
    /\ \E i \in Ids \ ReachableFrom(Requested) : OnCycle(i)
    /\ \E i \in Ids \ ReachableFrom(Requested) : Undeclared \in DepsOf(i)

\* C35: in apply-agents-patch.ts, applyPatch writes the marker file in exactly
\* the calls that return true: such a call has written it once, with one of
\* its three descriptions, and a call that returns false has written nothing
\* and leaves the marker as the invocation found it.
C35_MarkerWrittenIffReturnsTrue ==
    (agents.command = "apply" /\ agents.returned # "none") =>
        /\ agents.wrote > 0 <=> agents.returned = "true"
        /\ agents.returned = "true" =>
                /\ agents.wrote = 1
                /\ agents.marker \in {AlreadyInCode, MovesRules, DespiteGitError}
        /\ agents.returned = "false" => agents.marker = agents.marker0

\* An application whose first write of the marker failed after git apply
\* succeeded: the catch block found the changes and wrote the marker.
C35_Witness ==
    /\ agents.command = "apply" /\ agents.returned = "true"
    /\ agents.marker = DespiteGitError /\ agents.marker0 # DespiteGitError

\* An application that failed on drifted code where a marker was lying.
ApplyFailedBesideMarker ==
    /\ agents.command = "apply" /\ agents.returned = "false"
    /\ agents.marker0 # "absent"

RevertRemovedMarker ==
    /\ agents.reverse = "ok" /\ agents.marker0 = MovesRules

\* C37: in apply-agents-patch.ts, once applyPatch or revertPatch has
\* returned, with true or with false, the process ends with status 0; the
\* status is 1 only without .git, without the patch file, for an unknown
\* command or after an exception nothing caught.
C37_ExitStatusIgnoresOutcome ==
    agents.pc = "exit" =>
        /\ agents.exitCode \in {0, 1}
        /\ agents.returned \in {"true", "false"} => agents.exitCode = 0
        /\ agents.exitCode # 0 =>
                \/ ~agents.git
                \/ ~agents.patchFile
                \/ agents.command \notin {"apply", "revert", "status", "help"}
                \/ agents.thrown

\* An apply command whose applyPatch returned false and that ended with 0.
C37_Witness ==
    /\ agents.pc = "exit" /\ agents.exitCode = 0
    /\ agents.command = "apply" /\ agents.returned = "false"

\* A revert command whose revertPatch returned false and that ended with 0.
RevertFailedStatusZero ==
    /\ agents.pc = "exit" /\ agents.exitCode = 0 /\ agents.reverse = "failed"

\* An exception nothing caught: status 1.
UncaughtException ==
    /\ agents.pc = "exit" /\ agents.exitCode = 1 /\ agents.thrown
    /\ agents.git /\ agents.patchFile

\* What each step of apply-commit-hash-footer-patch.ts has written when it
\* ended without a failure.
AppGoWritten ==
    footer.disk["app.go"] =
        replace(footer.disk0["app.go"], "appStructPattern", "CommitHash string")
StatusGoWritten ==
    footer.disk["status.go"] =
        replace(footer.disk0["status.go"], "logoFunctionPattern", "versionText")
MainGoWritten ==
    footer.disk["main.go"] =
        replace(replace(footer.disk0["main.go"], "versionDeclPattern", "var CommitHash"),
                "appNewPattern", "commitHash,")

\* C38: apply-commit-hash-footer-patch.ts is not all-or-nothing: when the
\* pattern of a later step is not found it exits with status 1, and every
\* file an earlier step wrote differs from what the run found and holds
\* that step's text, while the file of the failing step is as it was.
C38_EarlierStepsStayWritten ==
    (footer.pc = "exit") =>
        /\ footer.exitCode = (IF footer.missing = "" THEN 0 ELSE 1)
        /\ footer.missing = "logoFunctionPattern" =>
                /\ AppGoWritten /\ footer.disk["app.go"] # footer.disk0["app.go"]
                /\ footer.disk["status.go"] = footer.disk0["status.go"]
                /\ footer.disk["main.go"] = footer.disk0["main.go"]
        /\ footer.missing \in {"versionDeclPattern", "appNewPattern"} =>
                /\ AppGoWritten /\ footer.disk["app.go"] # footer.disk0["app.go"]
                /\ StatusGoWritten /\ footer.disk["status.go"] # footer.disk0["status.go"]
                /\ footer.disk["main.go"] = footer.disk0["main.go"]
        /\ footer.missing \in {"newFuncPattern", "versionAssignPattern"} =>
                /\ AppGoWritten /\ footer.disk["app.go"] # footer.disk0["app.go"]
                /\ StatusGoWritten /\ footer.disk["status.go"] # footer.disk0["status.go"]
                /\ MainGoWritten /\ footer.disk["main.go"] # footer.disk0["main.go"]
        /\ footer.missing = "" =>
                \A path \in {"app.go", "status.go", "main.go"} :
                    footer.disk[path] # footer.disk0[path]

\* The New function was not found: status 1 with the three files written.
C38_Witness ==
    /\ footer.pc = "exit" /\ footer.exitCode = 1
    /\ footer.missing = "newFuncPattern"
    /\ footer.disk["main.go"] # footer.disk0["main.go"]

\* The app.New call was not found in main.go: two files written, main.go not.
AppNewCallMissing ==
    /\ footer.pc = "exit" /\ footer.exitCode = 1
    /\ footer.missing = "appNewPattern"
    /\ footer.disk["status.go"] # footer.disk0["status.go"]

====
